---------------------------- MODULE Spec2Model ----------------------------
(***************************************************************************)
(* EasyVocab: the spaced-repetition scheduler (submit_quiz_result), the    *)
(* daily counter with its per-word-per-day guard (increment_daily_counter) *)
(* and the word-debt report (get_word_debt) of src/app.py, together with   *)
(* the other handlers of the vocabulary API, the upload filter             *)
(* (allowed_file) and the password gate (login_required, login, logout).   *)
(*                                                                         *)
(* Time is counted in whole hours since an epoch at 00:00 UTC.  Dates are  *)
(* day numbers.  The application server and the database server are taken *)
(* to run their clocks in UTC, so datetime.now(), NOW() and                *)
(* CURRENT_TIMESTAMP all read the variable clock; only the daily counter   *)
(* and the debt report shift it to UTC+10.                                 *)
(*                                                                         *)
(* srs_ease_factor is a FLOAT column.  Python computes on it in IEEE-754   *)
(* doubles, MySQL stores it in single precision and hands it back as its   *)
(* shortest decimal text, which Python parses again.  Every value the      *)
(* program can produce from the default 2.5 therefore has two decimals,    *)
(* and the model keeps ease factors as integers in hundredths (2.5 = 250). *)
(* The one place where the binary representation shows through is the      *)
(* product int(interval * ease_factor); see PyIntProduct.                  *)
(***************************************************************************)
EXTENDS Integers, Sequences, FiniteSets, TLC

(***************************************************************************)
(* Bounds of the model.                                                    *)
(***************************************************************************)
MaxWords == 2
MaxRequests == 3
MaxCalls == 4
MaxQuizRequests == 12
MaxClock == 24
MaxCount == 2
MaxInterval == 100
MaxReps == 3
MaxDay == 3

WordIds == 1..MaxWords
WordTexts == {"a", "b"}
Categories == {"c1", "c2"}
Results == {"remember", "not_remember", "skip"}
TickHours == {10, 14}
CountVals == {0, 50, 100, 120, 150}

(***************************************************************************)
(* Program constants.                                                      *)
(***************************************************************************)
NULL == -1
HoursPerDay == 24
AestOffsetHours == 10
DailyQuota == 100
BreakdownDays == 20
InitialReviewCount == 2
DefaultEase == 250
MinEase == 130
EaseStep == 15
FirstInterval == 1
SecondInterval == 6

EaseVals == {130, 145, 160, 175, 190, 205, 220, 235, 250}

VARIABLES
    words,              \* table words: id -> row
    next_id,            \* AUTO_INCREMENT of words.id
    daily_study_log,    \* table daily_study_log: date -> review_count
    daily_word_reviews, \* table daily_word_reviews: set of <<word_id, date>>
    clock,              \* hours since the epoch, UTC
    budget,             \* requests the run may still make
    request,            \* the request being answered
    fetched,            \* the row the handler read before it wrote
    response,           \* the JSON answer of the handler
    credit_calls,       \* history: committed calls of increment_daily_counter,
                        \* <<word_id, date>> -> how many
    txn,                \* the open transactions of concurrent callers
    quiz_txn,           \* the quiz results being processed concurrently
    environ,            \* os.environ of the server process
    session             \* the Flask session of the browser

vars == <<words, next_id, daily_study_log, daily_word_reviews, clock, budget,
          request, fetched, response, credit_calls, txn, quiz_txn, environ,
          session>>

store == <<words, next_id, daily_study_log, daily_word_reviews>>

\* what the handlers of the vocabulary API leave alone when they run one
\* request at a time
elsewhere == <<quiz_txn, environ, session>>

(***************************************************************************)
(* Helpers.                                                                *)
(***************************************************************************)
Max(a, b) == IF a >= b THEN a ELSE b

MinOf(S) == CHOOSE x \in S : \A y \in S : x <= y

\* Python's  x or d  on a nullable number: None and 0 both give d.
OrDefault(x, d) == IF x = NULL \/ x = 0 THEN d ELSE x

\* date.today() of the server and CURDATE() of the database
UtcDate(t) == t \div HoursPerDay

\* datetime.now(AEST).date()
AestDate(t) == (t + AestOffsetHours) \div HoursPerDay

NoRow ==
    [word |-> "", category |-> "", review_count |-> NULL,
     srs_interval |-> NULL, srs_repetitions |-> NULL,
     srs_ease_factor |-> NULL, next_review_date |-> NULL,
     last_reviewed |-> NULL, updated_at |-> NULL,
     example_sentence |-> "", last_sample_review_date |-> NULL]

NoRequest == [op |-> "none"]
NoResponse == [status |-> 0]

\* slip: a missing word is answered as a success
MutWordNotFoundOk == [status |-> 200]

\* jsonify({"success": False, "error": "Word not found"}), 404
WordNotFound == [status |-> 404]

(***************************************************************************)
(* int(interval * ease_factor) in double precision, ease in hundredths.    *)
(* The double nearest to 2.05 lies below 2.05; for the intervals listed in *)
(* ShortAt205 the rounded product falls just short of the integer the      *)
(* decimal product would reach, and int() truncates to one less (for       *)
(* instance int(100 * 2.05) = 204).  For the other ease factors of         *)
(* EaseVals the product agrees with the decimal one.  The table covers the *)
(* intervals below 1000, which the bounds of the model stay under.         *)
(***************************************************************************)
ShortAt205 ==
    {60, 100, 120, 180, 200, 220, 240}
        \cup {340 + 20 * k : k \in 0..7}
        \cup {660 + 20 * k : k \in 0..16}

PyIntProduct(interval, ease) ==
    IF ease = 205 /\ interval \in ShortAt205
    THEN ((interval * ease) \div 100) - 1
    ELSE (interval * ease) \div 100

(***************************************************************************)
(* The SM-2 step of submit_quiz_result, field by field.  The arguments are *)
(* the defaulted values of the row and the current count.                  *)
(***************************************************************************)
\* slip: the repetitions = 1 case is missing
MutNewIntervalNoSecond(result, interval, repetitions, ease) ==
    IF result = "remember"
    THEN IF repetitions = 0 THEN FirstInterval
         ELSE PyIntProduct(interval, ease)
    ELSE 0

\* slip: round(interval * ease_factor) instead of int()
MutNewIntervalRound(result, interval, repetitions, ease) ==
    IF result = "remember"
    THEN IF repetitions = 0 THEN FirstInterval
         ELSE IF repetitions = 1 THEN SecondInterval
         ELSE (interval * ease + 50) \div 100
    ELSE 0

NewInterval(result, interval, repetitions, ease) ==
    IF result = "remember"
    THEN IF repetitions = 0 THEN FirstInterval
         ELSE IF repetitions = 1 THEN SecondInterval
         ELSE PyIntProduct(interval, ease)
    ELSE 0

\* slip: a wrong answer leaves the repetitions as they were
MutNewRepetitionsNoReset(result, repetitions) ==
    IF result = "remember" THEN repetitions + 1 ELSE repetitions

NewRepetitions(result, repetitions) ==
    IF result = "remember" THEN repetitions + 1 ELSE 0

\* slip: the lower bound of the ease factor is missing
MutNewEaseNoFloor(result, ease) ==
    IF result = "remember" THEN ease ELSE ease - EaseStep

\* slip: a correct answer raises the ease factor, as in full SM-2
MutNewEaseBonus(result, ease) ==
    IF result = "remember" THEN ease + EaseStep
    ELSE Max(MinEase, ease - EaseStep)

NewEase(result, ease) ==
    IF result = "remember" THEN ease ELSE Max(MinEase, ease - EaseStep)

\* slip: the count is decremented without the lower bound 0
MutNewCountNoFloor(result, current_count) ==
    IF result = "remember" THEN current_count - 1 ELSE current_count + 1

NewCount(result, current_count) ==
    IF result = "remember" THEN Max(0, current_count - 1) ELSE current_count + 1

\* slip: the interval is added in hours, not in days
MutNextReviewHours(now, interval) ==
    IF interval = 0 THEN now ELSE now + interval

\* slip: the word is due again at once, whatever the interval
MutNextReviewNow(now, interval) == now

NextReview(now, interval) ==
    IF interval = 0 THEN now ELSE now + interval * HoursPerDay

(***************************************************************************)
(* increment_daily_counter(cursor, word_id): the new ledger, the new guard *)
(* table and the returned flag.  word_id = NULL stands for None.           *)
(***************************************************************************)
Upsert(log, d) ==
    IF d \in DOMAIN log
    THEN [log EXCEPT ![d] = @ + 1]
    ELSE [x \in DOMAIN log \cup {d} |-> IF x = d THEN 1 ELSE log[x]]

\* slip: the guard table is not consulted
MutIncrementNoGuard(log, reviews, word_id, now) ==
    LET today_aest == AestDate(now) IN
    [log |-> Upsert(log, today_aest),
     reviews |-> IF word_id /= NULL
                 THEN reviews \cup {<<word_id, today_aest>>}
                 ELSE reviews,
     applied |-> TRUE]

\* slip: the early return on an existing guard row answers True
MutIncrementReturnsTrue(log, reviews, word_id, now) ==
    LET today_aest == AestDate(now) IN
    [log |-> IF word_id /= NULL /\ <<word_id, today_aest>> \in reviews
             THEN log ELSE Upsert(log, today_aest),
     reviews |-> IF word_id /= NULL
                 THEN reviews \cup {<<word_id, today_aest>>}
                 ELSE reviews,
     applied |-> TRUE]

IncrementDailyCounter(log, reviews, word_id, now) ==
    LET today_aest == AestDate(now) IN
    IF word_id /= NULL /\ <<word_id, today_aest>> \in reviews
    THEN [log |-> log, reviews |-> reviews, applied |-> FALSE]
    ELSE [log |-> Upsert(log, today_aest),
          reviews |-> IF word_id /= NULL
                      THEN reviews \cup {<<word_id, today_aest>>}
                      ELSE reviews,
          applied |-> TRUE]

\* the history of calls after one more committed call
RecordCall(calls, word_id, now) ==
    LET key == <<word_id, AestDate(now)>> IN
    IF key \in DOMAIN calls
    THEN [calls EXCEPT ![key] = @ + 1]
    ELSE [k \in DOMAIN calls \cup {key} |->
             IF k = key THEN 1 ELSE calls[k]]

(***************************************************************************)
(* get_word_debt.                                                          *)
(***************************************************************************)
\* daily_counts.get(d, 0)
CountOn(daily_counts, d) ==
    IF d \in DOMAIN daily_counts THEN daily_counts[d] ELSE 0

DailyDebt(count) == DailyQuota - count

\* slip: the loop runs up to and including today
RECURSIVE MutAccumulateDebtToday(_, _, _)
MutAccumulateDebtToday(daily_counts, current_date, today) ==
    IF current_date <= today
    THEN DailyDebt(CountOn(daily_counts, current_date))
             + MutAccumulateDebtToday(daily_counts, current_date + 1, today)
    ELSE 0

\* the while loop from current_date up to, not including, today
RECURSIVE AccumulateDebt(_, _, _)
AccumulateDebt(daily_counts, current_date, today) ==
    IF current_date < today
    THEN DailyDebt(CountOn(daily_counts, current_date))
             + AccumulateDebt(daily_counts, current_date + 1, today)
    ELSE 0

\* slip: today's deficit is applied as well as today's surplus
MutApplyTodayAlways(total_debt, today_count) ==
    total_debt - (today_count - DailyQuota)

\* today's count: only a surplus is applied
ApplyToday(total_debt, today_count) ==
    IF today_count > DailyQuota
    THEN total_debt - (today_count - DailyQuota)
    ELSE total_debt

\* slip: the total is not clamped
MutClampDebtNone(total_debt) == total_debt

ClampDebt(total_debt) == IF total_debt < 0 THEN 0 ELSE total_debt

TotalDebt(daily_counts, earliest_date, today) ==
    ClampDebt(ApplyToday(AccumulateDebt(daily_counts, earliest_date, today),
                         CountOn(daily_counts, today)))

\* slip: the walk stops one day early, leaving out the earliest day
RECURSIVE MutDebtBreakdownEarly(_, _, _, _)
MutDebtBreakdownEarly(daily_counts, breakdown_date, earliest_date, left) ==
    IF left = 0 \/ breakdown_date <= earliest_date
    THEN << >>
    ELSE <<[date |-> breakdown_date,
            debt |-> DailyDebt(CountOn(daily_counts, breakdown_date))]>>
             \o MutDebtBreakdownEarly(daily_counts, breakdown_date - 1,
                                      earliest_date, left - 1)

\* the for loop over range(20), walking back from breakdown_date
RECURSIVE DebtBreakdown(_, _, _, _)
DebtBreakdown(daily_counts, breakdown_date, earliest_date, left) ==
    IF left = 0 \/ breakdown_date < earliest_date
    THEN << >>
    ELSE <<[date |-> breakdown_date,
            debt |-> DailyDebt(CountOn(daily_counts, breakdown_date))]>>
             \o DebtBreakdown(daily_counts, breakdown_date - 1,
                              earliest_date, left - 1)

\* slip: with no rows, MIN(date) is taken as the epoch instead of returning
MutDebtReportEpoch(daily_counts, today) ==
    LET earliest_date == IF DOMAIN daily_counts = {} THEN 0
                         ELSE MinOf(DOMAIN daily_counts)
    IN  [total_debt |-> TotalDebt(daily_counts, earliest_date, today),
         breakdown |-> DebtBreakdown(daily_counts, today - 1,
                                     earliest_date, BreakdownDays)]

\* the body of get_word_debt: the early return on an empty ledger, then the
\* total and the breakdown
DebtReport(daily_counts, today) ==
    IF DOMAIN daily_counts = {}
    THEN [total_debt |-> 0, breakdown |-> << >>]
    ELSE LET earliest_date == MinOf(DOMAIN daily_counts)
         IN  [total_debt |-> TotalDebt(daily_counts, earliest_date, today),
              breakdown |-> DebtBreakdown(daily_counts, today - 1,
                                earliest_date, BreakdownDays)]

(***************************************************************************)
(* Initial states.                                                         *)
(***************************************************************************)
\* no call of increment_daily_counter yet, no transaction open
Procs == {1, 2}

IdleTxn == [pc |-> "idle", word_id |-> NULL, today_aest |-> NULL,
            applied |-> FALSE]

\* no quiz result in progress
IdleQuiz == [pc |-> "idle", word_id |-> NULL, result |-> "", read |-> NoRow,
             status |-> 0]

\* a browser that has not visited the site: the session is empty
NoSession == [logged_in |-> FALSE]

\* the environment without a site password
NoSitePassword == [SITE_PASSWORD |-> ""]

Quiet ==
    /\ credit_calls = << >>
    /\ txn = [p \in Procs |-> IdleTxn]
    /\ quiz_txn = [p \in Procs |-> IdleQuiz]
    /\ environ = NoSitePassword
    /\ session = NoSession

\* the application right after deployment: empty tables
Init ==
    /\ words = << >>
    /\ next_id = 1
    /\ daily_study_log = << >>
    /\ daily_word_reviews = {}
    /\ clock = 0
    /\ budget = MaxRequests
    /\ request = NoRequest
    /\ fetched = NoRow
    /\ response = NoResponse
    /\ Quiet

(***************************************************************************)
(* POST /api/quiz/result                                                   *)
(***************************************************************************)
\* slip: every result value is accepted
MutValidResultAny(result) == TRUE

\* result in ["remember", "not_remember"]
ValidResult(result) == result \in {"remember", "not_remember"}

\* the row the UPDATE of the handler writes
QuizRow(word, result, now) ==
    LET interval0 == OrDefault(word.srs_interval, 0)
        repetitions0 == OrDefault(word.srs_repetitions, 0)
        ease_factor0 == OrDefault(word.srs_ease_factor, DefaultEase)
        interval == NewInterval(result, interval0, repetitions0,
                                ease_factor0)
    IN  [word EXCEPT !.review_count = NewCount(result, word.review_count),
                     !.updated_at = now,
                     !.last_reviewed = now,
                     !.srs_interval = interval,
                     !.srs_repetitions = NewRepetitions(result, repetitions0),
                     !.srs_ease_factor = NewEase(result, ease_factor0),
                     !.next_review_date = NextReview(now, interval)]

\* slip: the columns are written one statement at a time on a connection
\* that commits each statement, so a failure leaves the first ones written
MutPersistQuizPartial(row, written, committed) ==
    IF committed THEN written
    ELSE [row EXCEPT !.srs_interval = written.srs_interval,
                     !.next_review_date = written.next_review_date]

\* the row in the table after the request: the single UPDATE takes effect
\* with conn.commit(); without it the closed connection is rolled back
PersistQuiz(row, written, committed) ==
    IF committed THEN written ELSE row

SubmitQuizResult(word_id, result) ==
    /\ budget > 0
    /\ budget' = budget - 1
    /\ request' = [op |-> "submit_quiz_result", word_id |-> word_id,
                   result |-> result, now |-> clock]
    /\ UNCHANGED <<next_id, daily_study_log, daily_word_reviews, clock,
                   credit_calls, txn, elsewhere>>
    /\ IF ~ValidResult(result)
       THEN /\ response' = [status |-> 400]
            /\ fetched' = NoRow
            /\ UNCHANGED words
       ELSE IF word_id \notin DOMAIN words
       THEN /\ response' = WordNotFound
            /\ fetched' = NoRow
            /\ UNCHANGED words
       ELSE LET word == words[word_id]
                current_count == word.review_count
                written == QuizRow(word, result, clock)
            IN  /\ fetched' = word
                /\ words' = [words EXCEPT ![word_id] =
                                 PersistQuiz(word, written, TRUE)]
                /\ response' = [status |-> 200, word_id |-> word_id,
                                old_count |-> current_count,
                                new_count |-> written.review_count,
                                srs |-> [interval |-> written.srs_interval,
                                         repetitions |->
                                             written.srs_repetitions,
                                         next_review |->
                                             written.next_review_date]]

\* where a request of the handler can raise: before the row is read, or
\* after the UPDATE was sent and before the commit took effect
FailStages == {"select", "commit"}

\* the handler when the database raises: the except branch answers 500 and
\* the connection is closed without a commit
SubmitQuizResultFails(word_id, result, stage) ==
    /\ budget > 0
    /\ ValidResult(result)
    /\ stage = "commit" => word_id \in DOMAIN words
    /\ budget' = budget - 1
    /\ request' = [op |-> "submit_quiz_result", word_id |-> word_id,
                   result |-> result, now |-> clock, stage |-> stage]
    /\ UNCHANGED <<next_id, daily_study_log, daily_word_reviews, clock,
                   credit_calls, txn, elsewhere>>
    /\ response' = [status |-> 500]
    /\ IF stage = "select"
       THEN /\ fetched' = NoRow
            /\ UNCHANGED words
       ELSE LET word == words[word_id]
            IN  /\ fetched' = word
                /\ words' = [words EXCEPT ![word_id] =
                                 PersistQuiz(word,
                                     QuizRow(word, result, clock), FALSE)]

(***************************************************************************)
(* POST /api/words                                                         *)
(***************************************************************************)
\* the row INSERT INTO words creates; the SRS columns take their defaults
FreshRow(word, category, now) ==
    [word |-> word, category |-> category,
     review_count |-> InitialReviewCount,
     srs_interval |-> 0, srs_repetitions |-> 0,
     srs_ease_factor |-> DefaultEase, next_review_date |-> NULL,
     last_reviewed |-> NULL, updated_at |-> now,
     example_sentence |-> "", last_sample_review_date |-> NULL]

\* slip: the credit stays although the block raised before its commit
MutBookkeepingKeepsCredit(log, reviews, word_id, now, bookkeeping_ok) ==
    IncrementDailyCounter(log, reviews, word_id, now)

\* the try block after the commit of the word: update_category_counts, the
\* daily credit and a second commit; when it raises nothing of it is
\* committed and the handler goes on
Bookkeeping(log, reviews, word_id, now, bookkeeping_ok) ==
    IF bookkeeping_ok
    THEN IncrementDailyCounter(log, reviews, word_id, now)
    ELSE [log |-> log, reviews |-> reviews, applied |-> FALSE]

\* bookkeeping_ok = FALSE: update_category_counts or the daily counter
\* raised after the word was committed; the handler ignores it
AddWord(word, category, bookkeeping_ok) ==
    /\ budget > 0
    /\ budget' = budget - 1
    /\ request' = [op |-> "add_word", word |-> word, category |-> category,
                   now |-> clock, bookkeeping_ok |-> bookkeeping_ok]
    /\ fetched' = NoRow
    /\ UNCHANGED <<clock, txn, elsewhere>>
    /\ IF word = "" \/ category = ""
       THEN /\ response' = [status |-> 400]
            /\ UNCHANGED <<store, credit_calls>>
       ELSE IF \E id \in DOMAIN words : words[id].word = word
       THEN /\ response' = [status |-> 409]
            /\ UNCHANGED <<store, credit_calls>>
       ELSE /\ next_id <= MaxWords
            /\ LET new_word_id == next_id
                   credit == Bookkeeping(daily_study_log,
                                 daily_word_reviews, new_word_id, clock,
                                 bookkeeping_ok)
               IN  /\ words' = [id \in DOMAIN words \cup {new_word_id} |->
                                   IF id = new_word_id
                                   THEN FreshRow(word, category, clock)
                                   ELSE words[id]]
                   /\ next_id' = next_id + 1
                   /\ daily_study_log' = credit.log
                   /\ daily_word_reviews' = credit.reviews
                   /\ credit_calls' =
                          IF bookkeeping_ok
                          THEN RecordCall(credit_calls, new_word_id, clock)
                          ELSE credit_calls
                   /\ response' = [status |-> 200, word_id |-> new_word_id]

(***************************************************************************)
(* DELETE /api/words/<id>                                                  *)
(***************************************************************************)
\* the values of the query parameter scope: absent, or all_categories
Scopes == {"", "all_categories"}

\* slip: the guard rows of a deleted word go with it
MutGuardRowsCascade(reviews, deleted) ==
    {key \in reviews : key[1] \notin deleted}

\* DELETE FROM words leaves daily_word_reviews alone: the handler credits
\* the deleted id afterwards
GuardRowsAfterDelete(reviews, deleted) == reviews

\* the handler: the row, or every row with its text, is deleted and
\* committed; the bookkeeping follows as in add_word
DeleteWord(word_id, scope, bookkeeping_ok) ==
    /\ budget > 0
    /\ budget' = budget - 1
    /\ request' = [op |-> "delete_word", word_id |-> word_id,
                   scope |-> scope, now |-> clock,
                   bookkeeping_ok |-> bookkeeping_ok]
    /\ UNCHANGED <<next_id, clock, txn, elsewhere>>
    /\ IF word_id \notin DOMAIN words
       THEN /\ response' = WordNotFound
            /\ fetched' = NoRow
            /\ UNCHANGED <<words, daily_study_log, daily_word_reviews,
                           credit_calls>>
       ELSE IF scope = "" /\ \E id \in DOMAIN words \ {word_id} :
                                 words[id].word = words[word_id].word
       THEN /\ response' = [status |-> 200, requires_confirmation |-> TRUE]
            /\ fetched' = words[word_id]
            /\ UNCHANGED <<words, daily_study_log, daily_word_reviews,
                           credit_calls>>
       ELSE LET kept == IF scope = "all_categories"
                        THEN {id \in DOMAIN words :
                                 words[id].word /= words[word_id].word}
                        ELSE DOMAIN words \ {word_id}
                credit == Bookkeeping(daily_study_log,
                              GuardRowsAfterDelete(daily_word_reviews,
                                  DOMAIN words \ kept),
                              word_id, clock, bookkeeping_ok)
            IN  /\ words' = [id \in kept |-> words[id]]
                /\ fetched' = words[word_id]
                /\ daily_study_log' = credit.log
                /\ daily_word_reviews' = credit.reviews
                /\ credit_calls' =
                       IF bookkeeping_ok
                       THEN RecordCall(credit_calls, word_id, clock)
                       ELSE credit_calls
                /\ response' = [status |-> 200,
                                requires_confirmation |-> FALSE]

(***************************************************************************)
(* POST /api/words/<id>/review                                             *)
(***************************************************************************)
\* slip: the increment also makes the word due now
MutReviewedRowReschedules(row, now) ==
    [row EXCEPT !.review_count = @ + 1,
                !.last_reviewed = now,
                !.updated_at = now,
                !.next_review_date = now]

\* the UPDATE of the handler: review_count + 1 and the two timestamps
ReviewedRow(row, now) ==
    [row EXCEPT !.review_count = @ + 1,
                !.last_reviewed = now,
                !.updated_at = now]

IncrementReviewCounter(word_id) ==
    /\ budget > 0
    /\ budget' = budget - 1
    /\ request' = [op |-> "increment_review_counter", word_id |-> word_id,
                   now |-> clock]
    /\ UNCHANGED <<next_id, clock, txn, elsewhere>>
    /\ IF word_id \in DOMAIN words
       THEN LET credit == IncrementDailyCounter(daily_study_log,
                              daily_word_reviews, word_id, clock)
                result == ReviewedRow(words[word_id], clock)
            IN  /\ fetched' = words[word_id]
                /\ words' = [words EXCEPT ![word_id] = result]
                /\ daily_study_log' = credit.log
                /\ daily_word_reviews' = credit.reviews
                /\ credit_calls' = RecordCall(credit_calls, word_id, clock)
                /\ response' = [status |-> 200,
                                review_count |-> result.review_count,
                                last_reviewed |-> result.last_reviewed]
       ELSE /\ fetched' = NoRow
            /\ response' = WordNotFound
            /\ UNCHANGED <<words, daily_study_log, daily_word_reviews,
                           credit_calls>>

(***************************************************************************)
(* GET /api/debt                                                           *)
(***************************************************************************)
GetWordDebt ==
    /\ budget > 0
    /\ budget' = budget - 1
    /\ request' = [op |-> "get_word_debt", now |-> clock]
    /\ fetched' = NoRow
    /\ UNCHANGED <<store, clock, credit_calls, txn, elsewhere>>
    /\ LET report == DebtReport(daily_study_log, AestDate(clock))
       IN  response' = [status |-> 200, total_debt |-> report.total_debt,
                        breakdown |-> report.breakdown]

\* increment_daily_counter(cursor, word_id) called on its own connection and
\* committed; word_id may be None
CreditDay(word_id) ==
    /\ budget > 0
    /\ budget' = budget - 1
    /\ request' = [op |-> "increment_daily_counter", word_id |-> word_id,
                   now |-> clock]
    /\ fetched' = NoRow
    /\ UNCHANGED <<words, next_id, clock, txn, elsewhere>>
    /\ LET credit == IncrementDailyCounter(daily_study_log,
                          daily_word_reviews, word_id, clock)
       IN  /\ daily_study_log' = credit.log
           /\ daily_word_reviews' = credit.reviews
           /\ credit_calls' = RecordCall(credit_calls, word_id, clock)
           /\ response' = [status |-> 200, applied |-> credit.applied]

\* the statements on the guard table that can raise
GuardFaults == {"select", "insert"}

\* slip: the exception of the guard statements is not caught, the call
\* ends without a credit
MutIncrementGuardRaisedFails(log, reviews, word_id, now, fault) ==
    [log |-> log, reviews |-> reviews, applied |-> FALSE]

\* increment_daily_counter when a statement on the guard table raises: the
\* except branch passes, no guard row is written and the ledger is
\* incremented
IncrementGuardRaised(log, reviews, word_id, now, fault) ==
    [log |-> Upsert(log, AestDate(now)),
     reviews |-> reviews,
     applied |-> TRUE]

\* a call with a word id in which the SELECT raises, or the SELECT finds no
\* row and the INSERT raises
CreditDayGuardRaises(word_id, fault) ==
    /\ budget > 0
    /\ fault = "insert" =>
           <<word_id, AestDate(clock)>> \notin daily_word_reviews
    /\ budget' = budget - 1
    /\ request' = [op |-> "increment_daily_counter", word_id |-> word_id,
                   now |-> clock, fault |-> fault]
    /\ fetched' = NoRow
    /\ UNCHANGED <<words, next_id, clock, txn, elsewhere>>
    /\ LET credit == IncrementGuardRaised(daily_study_log,
                          daily_word_reviews, word_id, clock, fault)
       IN  /\ daily_study_log' = credit.log
           /\ daily_word_reviews' = credit.reviews
           /\ credit_calls' = RecordCall(credit_calls, word_id, clock)
           /\ response' = [status |-> 200, applied |-> credit.applied]

(***************************************************************************)
(* The trigger before_word_update_daily_count of setup_daily_logic.py, on  *)
(* rows that carry its columns translation and last_daily_activity_date;   *)
(* its column sample_sentence is the field example_sentence, "" for NULL.  *)
(***************************************************************************)
Translations == {"t1", "t2"}

TriggerColumns == {"category", "review_count", "translation",
                   "sample_sentence"}

\* a row after the column last_daily_activity_date was added: NULL
TriggerRow(word, now) ==
    [word |-> word, category |-> "c1", review_count |-> 0,
     translation |-> "t1", example_sentence |-> "",
     last_daily_activity_date |-> NULL,
     srs_interval |-> 0, srs_repetitions |-> 0,
     srs_ease_factor |-> DefaultEase, next_review_date |-> NULL,
     last_reviewed |-> NULL, updated_at |-> now,
     last_sample_review_date |-> NULL]

\* the values an UPDATE may set a column to
ColumnValues(column) ==
    CASE column = "category" -> Categories
      [] column = "review_count" -> 0..1
      [] column = "translation" -> Translations
      [] column = "sample_sentence" -> {"", "s"}

\* the row with the SET clause applied
SetColumn(row, column, value) ==
    CASE column = "category" -> [row EXCEPT !.category = value]
      [] column = "review_count" -> [row EXCEPT !.review_count = value]
      [] column = "translation" -> [row EXCEPT !.translation = value]
      [] column = "sample_sentence" ->
             [row EXCEPT !.example_sentence = value]

\* the outer IF of the trigger: category, review_count, translation or
\* sample sentence differ between OLD and NEW
Significant(old, new) ==
    \/ new.category /= old.category
    \/ new.review_count /= old.review_count
    \/ new.translation /= old.translation
    \/ new.example_sentence /= old.example_sentence

\* slip: the inner IF on last_daily_activity_date is left out
MutTriggerCountsEvery(old, new, today) == Significant(old, new)

\* both IFs of the trigger: a significant update of a word not yet counted
\* today
TriggerCounts(old, new, today) ==
    /\ Significant(old, new)
    /\ (old.last_daily_activity_date = NULL
           \/ old.last_daily_activity_date < today)

\* UPDATE words SET column = value WHERE id = word_id, committed, with the
\* trigger installed
UpdateWithTrigger(word_id, column, value) ==
    /\ budget > 0
    /\ word_id \in DOMAIN words
    /\ budget' = budget - 1
    /\ request' = [op |-> "update_words", word_id |-> word_id,
                   column |-> column, value |-> value, now |-> clock]
    /\ UNCHANGED <<next_id, daily_word_reviews, clock, txn, elsewhere>>
    /\ LET old == words[word_id]
           new == SetColumn(old, column, value)
           today == UtcDate(clock)
           counts == TriggerCounts(old, new, today)
           key == <<word_id, today>>
       IN  /\ fetched' = old
           /\ words' = [words EXCEPT ![word_id] =
                  IF counts
                  THEN [new EXCEPT !.last_daily_activity_date = today]
                  ELSE new]
           /\ daily_study_log' = IF counts
                                 THEN Upsert(daily_study_log, today)
                                 ELSE daily_study_log
           /\ credit_calls' =
                  IF ~Significant(old, new) THEN credit_calls
                  ELSE IF key \in DOMAIN credit_calls
                  THEN [credit_calls EXCEPT ![key] = @ + 1]
                  ELSE [k \in DOMAIN credit_calls \cup {key} |->
                           IF k = key THEN 1 ELSE credit_calls[k]]
           /\ response' = [status |-> 200, counted |-> counts]

(***************************************************************************)
(* GET /api/daily-count                                                    *)
(***************************************************************************)
\* WHERE date = CURDATE(): the date of the database session
DailyCountDate(now) == UtcDate(now)

GetDailyCount ==
    /\ budget > 0
    /\ budget' = budget - 1
    /\ request' = [op |-> "get_daily_count", now |-> clock]
    /\ fetched' = NoRow
    /\ UNCHANGED <<store, clock, credit_calls, txn, elsewhere>>
    /\ response' = [status |-> 200,
                    count |-> CountOn(daily_study_log,
                                      DailyCountDate(clock))]

(***************************************************************************)
(* PUT /api/words/<id>                                                     *)
(***************************************************************************)
Sentences == {"s", "s "}

\* the request bodies drawn: a translation, an example sentence, both or
\* neither
EditBodies ==
    {[has_translation |-> t, has_example |-> e, example_sentence |-> s] :
        t \in BOOLEAN, e \in BOOLEAN, s \in Sentences \cup {""}}

\* str.strip() on the sentences drawn
Strip(s) == IF s = "s " THEN "s" ELSE s

\* slip: the daily cap on the increment for a new sample is left out
MutSampleBumpNoCap(new_sample, current_sample, last_sample_date, today) ==
    Strip(new_sample) /= Strip(current_sample)

\* the sample sentence changed and no change was counted today yet
SampleBump(new_sample, current_sample, last_sample_date, today) ==
    /\ Strip(new_sample) /= Strip(current_sample)
    /\ last_sample_date /= today

\* the handler: the shared fields are written to every row with the word's
\* text, then the day is credited for this word
UpdateWord(word_id, data) ==
    /\ budget > 0
    /\ budget' = budget - 1
    /\ request' = [op |-> "update_word", word_id |-> word_id, now |-> clock,
                   data |-> data]
    /\ UNCHANGED <<next_id, clock, txn, elsewhere>>
    /\ IF ~data.has_translation /\ ~data.has_example
       THEN /\ response' = [status |-> 400]
            /\ fetched' = NoRow
            /\ UNCHANGED <<words, daily_study_log, daily_word_reviews,
                           credit_calls>>
       ELSE IF word_id \notin DOMAIN words
       THEN /\ response' = WordNotFound
            /\ fetched' = NoRow
            /\ UNCHANGED <<words, daily_study_log, daily_word_reviews,
                           credit_calls>>
       ELSE LET current == words[word_id]
                bump == /\ data.has_example
                        /\ SampleBump(data.example_sentence,
                                      current.example_sentence,
                                      current.last_sample_review_date,
                                      UtcDate(clock))
                updated ==
                    [id \in DOMAIN words |->
                        IF words[id].word /= current.word THEN words[id]
                        ELSE [words[id] EXCEPT
                                 !.example_sentence =
                                     IF data.has_example
                                     THEN data.example_sentence ELSE @,
                                 !.review_count = IF bump THEN @ + 1 ELSE @,
                                 !.last_reviewed = IF bump THEN clock ELSE @,
                                 !.last_sample_review_date =
                                     IF bump THEN UtcDate(clock) ELSE @]]
                credit == IncrementDailyCounter(daily_study_log,
                              daily_word_reviews, word_id, clock)
            IN  /\ words' = updated
                /\ daily_study_log' = credit.log
                /\ daily_word_reviews' = credit.reviews
                /\ credit_calls' = RecordCall(credit_calls, word_id, clock)
                /\ fetched' = updated[word_id]
                /\ response' = [status |-> 200]

(***************************************************************************)
(* PUT /api/words/<id>/category                                            *)
(***************************************************************************)
\* the handler: only the category of the row is written
ChangeWordCategory(word_id, new_category) ==
    /\ budget > 0
    /\ budget' = budget - 1
    /\ request' = [op |-> "change_word_category", word_id |-> word_id,
                   now |-> clock, new_category |-> new_category]
    /\ UNCHANGED <<next_id, daily_study_log, daily_word_reviews, clock,
                   credit_calls, txn, elsewhere>>
    /\ IF new_category = ""
       THEN /\ response' = [status |-> 400]
            /\ fetched' = NoRow
            /\ UNCHANGED words
       ELSE IF word_id \notin DOMAIN words
       THEN /\ response' = WordNotFound
            /\ fetched' = NoRow
            /\ UNCHANGED words
       ELSE IF \E id \in DOMAIN words :
                   /\ words[id].word = words[word_id].word
                   /\ words[id].category = new_category
       THEN /\ response' = [status |-> 409]
            /\ fetched' = words[word_id]
            /\ UNCHANGED words
       ELSE /\ words' = [words EXCEPT ![word_id].category = new_category]
            /\ fetched' = words[word_id]
            /\ response' = [status |-> 200]

(***************************************************************************)
(* GET /api/quiz/next-word                                                 *)
(***************************************************************************)
\* slip: the lower bound on review_count is left out of the WHERE clause
MutDueWordsAnyCount(rows, category, now) ==
    {id \in DOMAIN rows :
        /\ (category /= "" /\ category /= "All") =>
               rows[id].category = category
        /\ (rows[id].next_review_date = NULL
               \/ rows[id].next_review_date <= now)}

\* the WHERE clause: review_count >= 1, the category unless it is empty or
\* 'All', and next_review_date <= NOW() or NULL
DueWords(rows, category, now) ==
    {id \in DOMAIN rows :
        /\ rows[id].review_count >= 1
        /\ (category /= "" /\ category /= "All") =>
               rows[id].category = category
        /\ (rows[id].next_review_date = NULL
               \/ rows[id].next_review_date <= now)}

\* slip: the rows with a NULL date are sorted first
MutComesBeforeNullFirst(a, b) ==
    LET null_a == IF a.next_review_date = NULL THEN 0 ELSE 1
        null_b == IF b.next_review_date = NULL THEN 0 ELSE 1
    IN  \/ null_a < null_b
        \/ /\ null_a = null_b
           /\ \/ a.next_review_date < b.next_review_date
              \/ /\ a.next_review_date = b.next_review_date
                 /\ a.updated_at <= b.updated_at

\* the ORDER BY clause: row a is sorted before row b, or level with it
ComesBefore(a, b) ==
    LET null_a == IF a.next_review_date = NULL THEN 1 ELSE 0
        null_b == IF b.next_review_date = NULL THEN 1 ELSE 0
    IN  \/ null_a < null_b
        \/ /\ null_a = null_b
           /\ \/ a.next_review_date < b.next_review_date
              \/ /\ a.next_review_date = b.next_review_date
                 /\ a.updated_at <= b.updated_at

\* the rows LIMIT 1 may return: those no other row is sorted strictly before
FrontWords(rows, due) ==
    {id \in due : \A other \in due : ComesBefore(rows[id], rows[other])}

\* the handler; rows level on every sort key come in an order the server
\* is free to choose
GetNextQuizWord(category) ==
    /\ budget > 0
    /\ budget' = budget - 1
    /\ request' = [op |-> "get_next_quiz_word", category |-> category,
                   now |-> clock]
    /\ UNCHANGED <<store, clock, credit_calls, txn, elsewhere>>
    /\ LET due == DueWords(words, category, clock)
       IN  IF due = {}
           THEN /\ fetched' = NoRow
                /\ response' = [status |-> 404, word_id |-> NULL]
           ELSE \E id \in FrontWords(words, due) :
                    /\ fetched' = words[id]
                    /\ response' = [status |-> 200, word_id |-> id]

(***************************************************************************)
(* increment_daily_counter statement by statement, for callers that run     *)
(* at the same time on connections of their own.  A connection commits     *)
(* explicitly; its reads see the committed rows, its inserted rows stay    *)
(* locked and invisible to the others until it commits.                    *)
(***************************************************************************)
GuardKey(p) == <<txn[p].word_id, txn[p].today_aest>>

\* p has run its INSERT on the guard table and not committed yet
HoldsGuardLock(p) == txn[p].pc \in {"upsert", "commit"} /\ txn[p].applied

\* p has run its INSERT on the ledger and not committed yet
HoldsLedgerLock(p) == txn[p].pc = "commit" /\ txn[p].applied

\* the call starts: today_aest is computed
CreditBegin(p, word_id) ==
    /\ txn[p].pc = "idle"
    /\ budget > 0
    /\ budget' = budget - 1
    /\ txn' = [txn EXCEPT ![p] = [pc |-> "select", word_id |-> word_id,
                                  today_aest |-> AestDate(clock),
                                  applied |-> FALSE]]
    /\ request' = [op |-> "increment_daily_counter", word_id |-> word_id,
                   now |-> clock]
    /\ UNCHANGED <<store, clock, fetched, response, credit_calls, elsewhere>>

\* SELECT 1 FROM daily_word_reviews: a row found ends the call with False
CreditSelect(p) ==
    /\ txn[p].pc = "select"
    /\ txn' = [txn EXCEPT ![p].pc =
                   IF GuardKey(p) \in daily_word_reviews
                   THEN "commit" ELSE "insert"]
    /\ UNCHANGED <<store, clock, budget, request, fetched, response,
                   credit_calls, elsewhere>>

\* INSERT INTO daily_word_reviews ... ON DUPLICATE KEY UPDATE: waits for an
\* uncommitted row with the same key, is a no-op on a committed one
CreditInsert(p) ==
    /\ txn[p].pc = "insert"
    /\ \A q \in Procs \ {p} :
           HoldsGuardLock(q) => GuardKey(q) /= GuardKey(p)
    /\ txn' = [txn EXCEPT ![p].pc = "upsert", ![p].applied = TRUE]
    /\ UNCHANGED <<store, clock, budget, request, fetched, response,
                   credit_calls, elsewhere>>

\* INSERT INTO daily_study_log ... ON DUPLICATE KEY UPDATE review_count + 1:
\* waits for an uncommitted change of the same date
CreditUpsert(p) ==
    /\ txn[p].pc = "upsert"
    /\ \A q \in Procs \ {p} :
           HoldsLedgerLock(q) => txn[q].today_aest /= txn[p].today_aest
    /\ txn' = [txn EXCEPT ![p].pc = "commit"]
    /\ UNCHANGED <<store, clock, budget, request, fetched, response,
                   credit_calls, elsewhere>>

\* the caller commits: the rows written by the call become visible
CreditCommit(p) ==
    /\ txn[p].pc = "commit"
    /\ txn' = [txn EXCEPT ![p] = IdleTxn]
    /\ IF txn[p].applied
       THEN /\ daily_word_reviews' = daily_word_reviews \cup {GuardKey(p)}
            /\ daily_study_log' = Upsert(daily_study_log, txn[p].today_aest)
       ELSE UNCHANGED <<daily_study_log, daily_word_reviews>>
    /\ credit_calls' =
           IF GuardKey(p) \in DOMAIN credit_calls
           THEN [credit_calls EXCEPT ![GuardKey(p)] = @ + 1]
           ELSE [k \in DOMAIN credit_calls \cup {GuardKey(p)} |->
                    IF k = GuardKey(p) THEN 1 ELSE credit_calls[k]]
    /\ response' = [status |-> 200, applied |-> txn[p].applied]
    /\ UNCHANGED <<words, next_id, clock, budget, request, fetched,
                   elsewhere>>

(***************************************************************************)
(* Time passes between requests.                                           *)
(***************************************************************************)
Tick(hours) ==
    /\ clock + hours <= MaxClock
    /\ clock' = clock + hours
    /\ UNCHANGED <<store, budget, request, fetched, response, credit_calls,
                   txn, elsewhere>>

(***************************************************************************)
(* The application: every endpoint modelled, from empty tables.            *)
(***************************************************************************)
AddStep ==
    \E word \in WordTexts \cup {""}, category \in Categories \cup {""},
       bookkeeping_ok \in BOOLEAN :
        AddWord(word, category, bookkeeping_ok)

QuizStep == \E word_id \in WordIds, result \in Results :
                \/ SubmitQuizResult(word_id, result)
                \/ \E stage \in FailStages :
                       SubmitQuizResultFails(word_id, result, stage)

ReviewStep == \E word_id \in WordIds : IncrementReviewCounter(word_id)

DebtStep == GetWordDebt

EditStep == \E word_id \in WordIds, data \in EditBodies :
                (~data.has_example => data.example_sentence = "")
                    /\ UpdateWord(word_id, data)

MoveStep == \E word_id \in WordIds, new_category \in Categories \cup {""} :
                ChangeWordCategory(word_id, new_category)

DeleteStep == \E word_id \in WordIds, scope \in Scopes,
                 bookkeeping_ok \in BOOLEAN :
                  DeleteWord(word_id, scope, bookkeeping_ok)

TickStep == \E hours \in TickHours : Tick(hours)

Next ==
    \/ AddStep
    \/ QuizStep
    \/ ReviewStep
    \/ DebtStep
    \/ EditStep
    \/ MoveStep
    \/ DeleteStep
    \/ TickStep

Spec == Init /\ [][Next]_vars

(***************************************************************************)
(* Quiz results on one word in an arbitrary SRS state.                     *)
(***************************************************************************)
Nullable(S) == S \cup {NULL}

InitSRS ==
    /\ \E review_count \in 0..MaxCount,
          srs_interval \in Nullable(0..MaxInterval),
          srs_repetitions \in Nullable(0..MaxReps),
          srs_ease_factor \in Nullable(EaseVals) :
            words = [id \in {1} |->
                        [FreshRow("a", "c1", 0) EXCEPT
                            !.review_count = review_count,
                            !.srs_interval = srs_interval,
                            !.srs_repetitions = srs_repetitions,
                            !.srs_ease_factor = srs_ease_factor]]
    /\ next_id = 2
    /\ daily_study_log = << >>
    /\ daily_word_reviews = {}
    /\ clock \in {0, 14}
    /\ budget = 1
    /\ request = NoRequest
    /\ fetched = NoRow
    /\ response = NoResponse
    /\ Quiet

NextSRS == QuizStep

SpecSRS == InitSRS /\ [][NextSRS]_vars

(***************************************************************************)
(* Any sequence of quiz results on one freshly created word.               *)
(***************************************************************************)
InitQuiz ==
    /\ words = [id \in {1} |-> FreshRow("a", "c1", 0)]
    /\ next_id = 2
    /\ daily_study_log = << >>
    /\ daily_word_reviews = {}
    /\ clock = 0
    /\ budget = MaxQuizRequests
    /\ request = NoRequest
    /\ fetched = NoRow
    /\ response = NoResponse
    /\ Quiet

NextQuiz == QuizStep

SpecQuiz == InitQuiz /\ [][NextQuiz]_vars

(***************************************************************************)
(* The debt report over an arbitrary ledger.                               *)
(***************************************************************************)
Ledgers == UNION {[S -> CountVals] : S \in SUBSET (0..MaxDay)}

\* days late enough for the window of the breakdown to be full
FarDays == {BreakdownDays, BreakdownDays + 2}

InitDebt ==
    /\ words = << >>
    /\ next_id = 1
    /\ daily_study_log \in Ledgers
    /\ daily_word_reviews = {}
    /\ clock \in {HoursPerDay * d + h : d \in (0..MaxDay) \cup FarDays,
                                        h \in {0, 14}}
    /\ budget = 1
    /\ request = NoRequest
    /\ fetched = NoRow
    /\ response = NoResponse
    /\ Quiet

NextDebt == DebtStep

SpecDebt == InitDebt /\ [][NextDebt]_vars

(***************************************************************************)
(* The daily counter called directly, with and without a word id.          *)
(***************************************************************************)
CreditStep == \E word_id \in WordIds \cup {NULL} : CreditDay(word_id)

InitCounter ==
    /\ words = << >>
    /\ next_id = 1
    /\ daily_study_log = << >>
    /\ daily_word_reviews = {}
    /\ clock = 0
    /\ budget = MaxCalls
    /\ request = NoRequest
    /\ fetched = NoRow
    /\ response = NoResponse
    /\ Quiet

DailyCountStep == GetDailyCount

NextCounter == CreditStep \/ DailyCountStep \/ TickStep

SpecCounter == InitCounter /\ [][NextCounter]_vars

(***************************************************************************)
(* Updates of words with the trigger installed.                            *)
(***************************************************************************)
TriggerStep ==
    \E word_id \in WordIds, column \in TriggerColumns :
        \E value \in ColumnValues(column) :
            UpdateWithTrigger(word_id, column, value)

InitTrigger ==
    /\ words = [id \in WordIds |->
                   TriggerRow(IF id = 1 THEN "a" ELSE "b", 0)]
    /\ next_id = MaxWords + 1
    /\ daily_study_log = << >>
    /\ daily_word_reviews = {}
    /\ clock = 0
    /\ budget = MaxCalls
    /\ request = NoRequest
    /\ fetched = NoRow
    /\ response = NoResponse
    /\ Quiet

NextTrigger == TriggerStep \/ TickStep

SpecTrigger == InitTrigger /\ [][NextTrigger]_vars

(***************************************************************************)
(* The daily counter with a guard table that may raise.                    *)
(***************************************************************************)
FaultStep == \E word_id \in WordIds, fault \in GuardFaults :
                 CreditDayGuardRaises(word_id, fault)

NextFault == CreditStep \/ FaultStep \/ TickStep

SpecFault == InitCounter /\ [][NextFault]_vars

(***************************************************************************)
(* Two callers of the daily counter at the same time.                      *)
(***************************************************************************)
BeginStep == \E p \in Procs, word_id \in WordIds : CreditBegin(p, word_id)

SelectStep == \E p \in Procs : CreditSelect(p)

InsertStep == \E p \in Procs : CreditInsert(p)

UpsertStep == \E p \in Procs : CreditUpsert(p)

CommitStep == \E p \in Procs : CreditCommit(p)

NextRace ==
    \/ BeginStep
    \/ SelectStep
    \/ InsertStep
    \/ UpsertStep
    \/ CommitStep
    \/ TickStep

SpecRace == InitCounter /\ [][NextRace]_vars

(***************************************************************************)
(* The selection of the next quiz word over drawn stores.                  *)
(***************************************************************************)
CategoryArgs == Categories \cup {"All", ""}

SelectCounts == {0, 1}
SelectDates == {NULL, 0, HoursPerDay, 2 * HoursPerDay}
SelectUpdates == {0, AestOffsetHours}

SelectRows ==
    {[FreshRow(word, category, updated_at) EXCEPT
          !.review_count = review_count,
          !.next_review_date = next_review_date] :
        word \in WordTexts, category \in Categories,
        updated_at \in SelectUpdates, review_count \in SelectCounts,
        next_review_date \in SelectDates}

NextWordStep == \E category \in CategoryArgs : GetNextQuizWord(category)

InitSelect ==
    /\ \E n \in 0..MaxWords :
           /\ words \in [1..n -> SelectRows]
           /\ next_id = n + 1
    /\ \A i, j \in DOMAIN words :
           (words[i].word = words[j].word
               /\ words[i].category = words[j].category) => i = j
    /\ daily_study_log = << >>
    /\ daily_word_reviews = {}
    /\ clock \in {HoursPerDay, HoursPerDay + AestOffsetHours}
    /\ budget = 1
    /\ request = NoRequest
    /\ fetched = NoRow
    /\ response = NoResponse
    /\ Quiet

NextSelect == NextWordStep

SpecSelect == InitSelect /\ [][NextSelect]_vars

(***************************************************************************)
(* Properties of the quiz-result transition.                               *)
(***************************************************************************)
\* the last request was a quiz result with this outcome and it was stored
QuizAnswered(result) ==
    /\ request.op = "submit_quiz_result"
    /\ response.status = 200
    /\ request.result = result

\* the row as it is stored after the request
Stored == words[request.word_id]

\* the SRS state the request started from; an absent field counts as its
\* default (interval 0, repetitions 0, ease factor 2.5)
OldInterval == IF fetched.srs_interval = NULL THEN 0 ELSE fetched.srs_interval

OldRepetitions ==
    IF fetched.srs_repetitions = NULL THEN 0 ELSE fetched.srs_repetitions

OldEase ==
    IF fetched.srs_ease_factor = NULL THEN 250 ELSE fetched.srs_ease_factor

\* C1: a not_remember result yields repetitions = 0, interval = 0,
\* easeFactor = max(1.3, old easeFactor - 0.15) and review_count = old + 1,
\* whatever the SRS state was.
C1_NotRemember ==
    QuizAnswered("not_remember") =>
        /\ Stored.srs_repetitions = 0
        /\ Stored.srs_interval = 0
        /\ Stored.srs_ease_factor =
               (IF OldEase - 15 >= 130 THEN OldEase - 15 ELSE 130)
        /\ Stored.review_count = fetched.review_count + 1

\* a not_remember result on a word that was well learned and whose ease
\* factor was already at the floor
C1_Witness ==
    /\ QuizAnswered("not_remember")
    /\ fetched.srs_ease_factor = 130
    /\ fetched.srs_repetitions = 3
    /\ fetched.srs_interval = 40
    /\ Stored.srs_ease_factor = 130
    /\ Stored.review_count = 3

\* C2: a remember result sets interval to exactly 1 when repetitions was 0
\* and to exactly 6 when repetitions was 1, whatever the old interval and
\* ease factor were.
C2_FirstIntervals ==
    QuizAnswered("remember") =>
        /\ OldRepetitions = 0 => Stored.srs_interval = 1
        /\ OldRepetitions = 1 => Stored.srs_interval = 6

\* a remember result at repetitions = 1 from an interval and an ease factor
\* whose product is far from 6
C2_Witness ==
    /\ QuizAnswered("remember")
    /\ fetched.srs_repetitions = 1
    /\ fetched.srs_interval = 50
    /\ fetched.srs_ease_factor = 130
    /\ Stored.srs_interval = 6

C4_RememberFrame ==
    QuizAnswered("remember") =>
        /\ Stored.srs_repetitions = OldRepetitions + 1
        /\ Stored.srs_ease_factor = OldEase

\* a remember result on a word with a lowered ease factor
C4_Witness ==
    /\ QuizAnswered("remember")
    /\ fetched.srs_repetitions = 2
    /\ fetched.srs_ease_factor = 205
    /\ Stored.srs_repetitions = 3
    /\ Stored.srs_ease_factor = 205

\* C5: from a freshly created word, after any sequence of quiz results the
\* stored ease factor is never below 1.3.
C5_EaseFloor ==
    \A id \in DOMAIN words : words[id].srs_ease_factor >= 130

\* a not_remember result on a word that earlier failures had already
\* brought down to 1.3
C5_Witness ==
    /\ QuizAnswered("not_remember")
    /\ fetched.srs_ease_factor = 130
    /\ Stored.srs_ease_factor = 130

\* C6: review_count is never negative after any sequence of quiz results;
\* a remember result sets it to max(0, current - 1).
C6_CountFloor ==
    /\ \A id \in DOMAIN words : words[id].review_count >= 0
    /\ QuizAnswered("remember") =>
           Stored.review_count =
               (IF fetched.review_count >= 1 THEN fetched.review_count - 1
                ELSE 0)

\* a remember result on a word whose review_count was already 0
C6_Witness ==
    /\ QuizAnswered("remember")
    /\ fetched.review_count = 0
    /\ Stored.review_count = 0

\* C7: after every quiz result the stored next_review_date is the time of
\* the request when the new interval is 0, and that time plus the new
\* interval in days otherwise.
C7_NextReviewDate ==
    (request.op = "submit_quiz_result" /\ response.status = 200) =>
        /\ Stored.srs_interval = 0 => Stored.next_review_date = request.now
        /\ Stored.srs_interval > 0 =>
               Stored.next_review_date =
                   request.now + 24 * Stored.srs_interval
        /\ response.srs.next_review = Stored.next_review_date
        /\ response.srs.interval = Stored.srs_interval

\* a second remember result, answered later than the epoch: due in 6 days
C7_Witness ==
    /\ QuizAnswered("remember")
    /\ request.now = 14
    /\ Stored.srs_interval = 6
    /\ Stored.next_review_date = 14 + 6 * 24

(***************************************************************************)
(* Properties of the debt report.                                          *)
(***************************************************************************)
DebtReported == request.op = "get_word_debt" /\ response.status = 200

Today == (request.now + 10) \div 24

LedgerCount(d) ==
    IF d \in DOMAIN daily_study_log THEN daily_study_log[d] ELSE 0

RECURSIVE SumOfDebts(_)
SumOfDebts(days) ==
    IF days = {} THEN 0
    ELSE LET d == CHOOSE x \in days : TRUE
         IN  (100 - LedgerCount(d)) + SumOfDebts(days \ {d})

EarliestDate ==
    CHOOSE d \in DOMAIN daily_study_log :
        \A x \in DOMAIN daily_study_log : d <= x

\* S: the sum of 100 - count(d) over the days from earliestDate to yesterday
PastDebt == SumOfDebts({d \in EarliestDate..(Today - 1) : TRUE})

SurplusToday ==
    IF LedgerCount(Today) > 100 THEN LedgerCount(Today) - 100 ELSE 0

\* C8: for a non-empty ledger totalDebt = max(0, S - surplusToday), S being
\* the sum of 100 - count(d) over every day from earliestDate up to, not
\* including, today, with count 0 for days without a row.
C8_TotalDebt ==
    (DebtReported /\ DOMAIN daily_study_log /= {}) =>
        response.total_debt =
            (IF PastDebt - SurplusToday >= 0 THEN PastDebt - SurplusToday
             ELSE 0)

\* the example of the specification: {day-3: 0, day-2: 150, day-1: 50} and no
\* row for today give 100
C8_Witness ==
    /\ DebtReported
    /\ Today = 3
    /\ daily_study_log = [d \in 0..2 |-> IF d = 0 THEN 0
                                          ELSE IF d = 1 THEN 150 ELSE 50]
    /\ response.total_debt = 100

\* the total the report would give if today's row were not in the ledger
TotalExcludingToday ==
    LET others == DOMAIN daily_study_log \ {Today}
        log == [d \in others |-> daily_study_log[d]]
    IN  IF others = {} THEN 0
        ELSE TotalDebt(log, MinOf(others), Today)

\* C9 as stated: today's count c contributes nothing when c <= 100, and
\* when c > 100 the total is exactly c - 100 less than the total computed
\* without today's row.
C9_AsStated ==
    DebtReported =>
        /\ LedgerCount(Today) <= 100 =>
               response.total_debt = TotalExcludingToday
        /\ LedgerCount(Today) > 100 =>
               response.total_debt =
                   TotalExcludingToday - (LedgerCount(Today) - 100)

\* C9 amended: today's count c contributes nothing when c <= 100; when
\* c > 100 the total is max(0, S - (c - 100)), so it is exactly c - 100
\* less than the total without today's row when S >= c - 100 and 0 otherwise.
C9_TodaySurplus ==
    (DebtReported /\ DOMAIN daily_study_log /= {}) =>
        /\ LedgerCount(Today) <= 100 =>
               response.total_debt = TotalExcludingToday
        /\ (LedgerCount(Today) > 100
                /\ PastDebt >= LedgerCount(Today) - 100) =>
               response.total_debt =
                   TotalExcludingToday - (LedgerCount(Today) - 100)
        /\ (LedgerCount(Today) > 100
                /\ PastDebt < LedgerCount(Today) - 100) =>
               response.total_debt = 0

\* today's count is 120 and the past days owe 150: the total is 130
C9_Witness ==
    /\ DebtReported
    /\ LedgerCount(Today) = 120
    /\ PastDebt = 150
    /\ TotalExcludingToday = 150
    /\ response.total_debt = 130

\* C10: for every ledger and every today the reported totalDebt is >= 0,
\* while entries of the breakdown may be negative.
C10_TotalNonNegative ==
    DebtReported => response.total_debt >= 0

\* the past days hold a surplus: the total is clamped to 0 and the
\* breakdown shows a negative entry
C10_Witness ==
    /\ DebtReported
    /\ DOMAIN daily_study_log /= {}
    /\ PastDebt < 0
    /\ response.total_debt = 0
    /\ \E i \in DOMAIN response.breakdown : response.breakdown[i].debt < 0

\* C11: on an empty ledger the report is totalDebt = 0 with an empty
\* breakdown, whatever the day.
C11_EmptyLedger ==
    (DebtReported /\ DOMAIN daily_study_log = {}) =>
        /\ response.total_debt = 0
        /\ response.breakdown = << >>

\* a report on an empty ledger, asked well after the epoch
C11_Witness ==
    /\ DebtReported
    /\ DOMAIN daily_study_log = {}
    /\ Today >= BreakdownDays
    /\ response.total_debt = 0
    /\ response.breakdown = << >>

\* the number of days from earliestDate up to, not including, today
DaysBeforeToday == Max(0, Today - EarliestDate)

\* C12: the breakdown lists consecutive days from yesterday backward, never
\* today nor a day before earliestDate, has exactly min(20, number of days
\* in [earliestDate, today)) entries, and each entry's debt is
\* 100 - count(day), not clamped.
C12_Breakdown ==
    (DebtReported /\ DOMAIN daily_study_log /= {}) =>
        /\ Len(response.breakdown) =
               IF DaysBeforeToday > 20 THEN 20 ELSE DaysBeforeToday
        /\ \A i \in 1..Len(response.breakdown) :
               /\ response.breakdown[i].date = Today - i
               /\ response.breakdown[i].date >= EarliestDate
               /\ response.breakdown[i].debt =
                      100 - LedgerCount(Today - i)

\* more than 20 days lie before today: the breakdown holds 20 entries, the
\* last of them after earliestDate, and one entry is a surplus
C12_Witness ==
    /\ DebtReported
    /\ DOMAIN daily_study_log /= {}
    /\ DaysBeforeToday > 20
    /\ Len(response.breakdown) = 20
    /\ response.breakdown[20].date > EarliestDate
    /\ \E i \in 1..20 : response.breakdown[i].debt < 0

\* fewer than 20 days lie before today: the breakdown ends at earliestDate
C12_WitnessShort ==
    /\ DebtReported
    /\ DOMAIN daily_study_log /= {}
    /\ Len(response.breakdown) = 3
    /\ response.breakdown[3].date = EarliestDate

(***************************************************************************)
(* Properties of the daily counter.                                        *)
(***************************************************************************)
\* how many committed calls were made for this word id on this date
CallsFor(word_id, d) ==
    IF <<word_id, d>> \in DOMAIN credit_calls
    THEN credit_calls[<<word_id, d>>] ELSE 0

CreditedWords(d) == {w \in WordIds : CallsFor(w, d) > 0}

CreditDates == {k[2] : k \in DOMAIN credit_calls} \cup DOMAIN daily_study_log

\* C13: however many sequential calls are made for the same (date, wordId),
\* ledger[date] is incremented once for that word; each call with no wordId
\* increments ledger[date] by 1.
C13_OncePerWord ==
    \A d \in CreditDates :
        LedgerCount(d) = Cardinality(CreditedWords(d)) + CallsFor(NULL, d)

\* on one day: two calls for word 1 and two calls with no word id, the
\* ledger holds 1 + 2
C13_Witness ==
    \E d \in CreditDates :
        /\ CallsFor(1, d) = 2
        /\ CallsFor(2, d) = 0
        /\ CallsFor(NULL, d) = 2
        /\ LedgerCount(d) = 3

\* C15: a call with a wordId answers true exactly when it incremented the
\* ledger; when the guard row for (wordId, date) exists it answers false and
\* leaves ledger and guard table unchanged; the entries of other dates are
\* unchanged in every case.
C15_ReturnValue ==
    [][(budget' < budget /\ request'.op = "increment_daily_counter"
            /\ request'.word_id /= NULL) =>
        LET d == AestDate(clock)
            key == <<request'.word_id, d>>
        IN  /\ response'.applied =
                   (CountOn(daily_study_log', d)
                        = CountOn(daily_study_log, d) + 1)
            /\ ~response'.applied => daily_study_log' = daily_study_log
            /\ key \in daily_word_reviews =>
                   /\ ~response'.applied
                   /\ daily_study_log' = daily_study_log
                   /\ daily_word_reviews' = daily_word_reviews
            /\ key \notin daily_word_reviews =>
                   /\ response'.applied
                   /\ daily_word_reviews' = daily_word_reviews \cup {key}
            /\ \A x \in (DOMAIN daily_study_log
                           \cup DOMAIN daily_study_log') \ {d} :
                   CountOn(daily_study_log', x)
                       = CountOn(daily_study_log, x)]_vars

\* a second call for the same word on the same day answered false, with the
\* ledger of an earlier day in place
C15_Witness ==
    /\ request.op = "increment_daily_counter"
    /\ request.word_id /= NULL
    /\ response.applied = FALSE
    /\ CallsFor(request.word_id, AestDate(request.now)) = 2
    /\ LedgerCount(AestDate(request.now)) = 1
    /\ LedgerCount(AestDate(request.now) - 1) = 1

AllCommitted == \A p \in Procs : txn[p].pc = "idle"

\* C14: under every interleaving of concurrent calls for the same wordId on
\* the same day, ledger[date] is increased by exactly 1 in total: once all
\* calls have committed, the day's count is the number of words credited.
C14_NoDoubleCredit ==
    AllCommitted =>
        \A d \in CreditDates :
            LedgerCount(d) = Cardinality(CreditedWords(d))

(***************************************************************************)
(* Properties of the selection of the next quiz word.                      *)
(***************************************************************************)
WordSelected == request.op = "get_next_quiz_word" /\ response.status = 200

\* the words the request may be answered with: deficit >= 1, date absent or
\* passed, in the requested category when one other than 'All' is given
Eligible ==
    {id \in DOMAIN words :
        /\ words[id].review_count >= 1
        /\ \/ words[id].next_review_date = NULL
           \/ words[id].next_review_date <= request.now
        /\ request.category \in Categories =>
               words[id].category = request.category}

Dated == {id \in Eligible : words[id].next_review_date /= NULL}

\* C16: the word returned has review_count >= 1, a next_review_date that is
\* absent or <= now, and the requested category when one other than 'All'
\* is given; none is returned exactly when no such word exists.
C16_ReturnsEligible ==
    request.op = "get_next_quiz_word" =>
        /\ response.status \in {200, 404}
        /\ response.status = 200 => response.word_id \in Eligible
        /\ response.status = 404 <=> Eligible = {}

\* a word of the requested category is returned while the store also holds
\* a word without deficit, a word not yet due and a word of the other
\* category
C16_Witness ==
    /\ WordSelected
    /\ request.category \in Categories
    /\ words[response.word_id].next_review_date /= NULL
    /\ \E id \in DOMAIN words :
           words[id].category /= request.category
    /\ \E id \in DOMAIN words :
           \/ words[id].review_count = 0
           \/ words[id].next_review_date > request.now

\* nothing is due although the store holds words
C16_WitnessNone ==
    /\ request.op = "get_next_quiz_word"
    /\ response.status = 404
    /\ DOMAIN words /= {}

SelectReturning(category, id) ==
    GetNextQuizWord(category) /\ response'.word_id = id

\* C18: the selection is deterministic: for the same store, category and
\* now, one word only can be returned, also when eligible words tie on
\* next_review_date and updated_at.
C18_Deterministic ==
    \A category \in CategoryArgs : \A i, j \in WordIds :
        (ENABLED SelectReturning(category, i)
            /\ ENABLED SelectReturning(category, j)) => i = j

(***************************************************************************)
(* Properties of the review events.                                        *)
(***************************************************************************)
\* the last request was a quiz answer, an edit, a category move or a
\* creation, and it was processed
ReviewEvent ==
    /\ response.status = 200
    /\ request.op \in {"submit_quiz_result", "update_word",
                       "change_word_category", "add_word"}
    /\ request.op = "submit_quiz_result" =>
           request.result \in {"remember", "not_remember"}

EventWord ==
    IF request.op = "add_word" THEN response.word_id ELSE request.word_id

\* C19: after every processed review event (quiz answer, edit, category
\* move, creation) a dedup row for (word, today) exists and the day's ledger
\* count has been incremented for it.
C19_EventsCredited ==
    ReviewEvent =>
        /\ <<EventWord, AestDate(request.now)>> \in daily_word_reviews
        /\ LedgerCount(AestDate(request.now)) >= 1

\* a request was processed in this step
Processed == budget' < budget /\ response'.status = 200

\* the edit of this step changes the sample sentence of the word and no
\* such change was counted today for it
CountedEdit ==
    /\ request'.data.has_example
    /\ Strip(request'.data.example_sentence)
           /= Strip(words[request'.word_id].example_sentence)
    /\ words[request'.word_id].last_sample_review_date
           /= request'.now \div 24

C20_WitnessMove ==
    /\ request.op = "change_word_category"
    /\ response.status = 200
    /\ Stored.category = request.new_category
    /\ Stored.review_count = fetched.review_count

(***************************************************************************)
(* Frame of the scheduling fields.                                         *)
(***************************************************************************)
\* the four scheduling fields of a row
Schedule(row) ==
    <<row.srs_interval, row.srs_repetitions, row.srs_ease_factor,
      row.next_review_date>>

\* C21: srs_interval, srs_repetitions, srs_ease_factor and next_review_date
\* of a word change only in a processed quiz result, for the word of the
\* request and all in that one write: repetitions and interval follow the
\* outcome and next_review_date is now + interval days.  Edits, category
\* moves, /review increments and daily credits leave the four unchanged.
C21_ScheduleFrame ==
    [][\A id \in DOMAIN words \cap DOMAIN words' :
        Schedule(words'[id]) /= Schedule(words[id]) =>
            /\ request'.op = "submit_quiz_result"
            /\ response'.status = 200
            /\ id = request'.word_id
            /\ words'[id].next_review_date =
                   request'.now + 24 * words'[id].srs_interval
            /\ request'.result = "remember" =>
                   /\ words'[id].srs_repetitions =
                          OrDefault(words[id].srs_repetitions, 0) + 1
                   /\ words'[id].srs_ease_factor =
                          OrDefault(words[id].srs_ease_factor, 250)
            /\ request'.result = "not_remember" =>
                   /\ words'[id].srs_repetitions = 0
                   /\ words'[id].srs_interval = 0]_vars

\* a /review increment on a word that a quiz result has scheduled: the
\* count rose and the schedule is the one the quiz result wrote
C21_Witness ==
    /\ request.op = "increment_review_counter"
    /\ response.status = 200
    /\ fetched.srs_repetitions = 1
    /\ fetched.next_review_date = 24
    /\ Stored.review_count = fetched.review_count + 1
    /\ Schedule(Stored) = Schedule(fetched)

(***************************************************************************)
(* Persisting a quiz result.                                               *)
(***************************************************************************)
\* a quiz-result request was handled in this step
QuizHandled == budget' < budget /\ request'.op = "submit_quiz_result"

\* the five fields this outcome gives a row
OutcomeOf(row, result, now) ==
    LET reps == OrDefault(row.srs_repetitions, 0)
        ease == OrDefault(row.srs_ease_factor, 250)
        interval == IF result /= "remember" THEN 0
                    ELSE IF reps = 0 THEN 1
                    ELSE IF reps = 1 THEN 6
                    ELSE PyIntProduct(OrDefault(row.srs_interval, 0), ease)
    IN  [review_count |-> IF result = "remember"
                          THEN Max(0, row.review_count - 1)
                          ELSE row.review_count + 1,
         srs_interval |-> interval,
         srs_repetitions |-> IF result = "remember" THEN reps + 1 ELSE 0,
         srs_ease_factor |-> IF result = "remember" THEN ease
                             ELSE Max(130, ease - 15),
         next_review_date |-> now + 24 * interval]

FiveFields(row) ==
    [review_count |-> row.review_count,
     srs_interval |-> row.srs_interval,
     srs_repetitions |-> row.srs_repetitions,
     srs_ease_factor |-> row.srs_ease_factor,
     next_review_date |-> row.next_review_date]

\* C22: a quiz result is persisted all or nothing: a processed request
\* leaves all five of review_count, srs_interval, srs_repetitions,
\* srs_ease_factor, next_review_date at their new values, any other request
\* (failed or rejected) leaves every word as it was, so that a retry computes
\* the new state a single successful request would have computed.
C22_AllOrNothing ==
    [][QuizHandled =>
        IF response'.status = 200
        THEN \A id \in DOMAIN words :
                 IF id = request'.word_id
                 THEN FiveFields(words'[id]) =
                          OutcomeOf(words[id], request'.result, request'.now)
                 ELSE words'[id] = words[id]
        ELSE /\ words' = words
             /\ (response'.status = 500
                    /\ request'.word_id \in DOMAIN words) =>
                    OutcomeOf(words'[request'.word_id], request'.result,
                              request'.now)
                        = OutcomeOf(words[request'.word_id],
                                    request'.result, request'.now)]_vars

\* a request failed after its UPDATE was sent, on a word an earlier result
\* had scheduled: the row is the one the handler had read
C22_Witness ==
    /\ request.op = "submit_quiz_result"
    /\ response.status = 500
    /\ request.stage = "commit"
    /\ fetched.srs_repetitions = 1
    /\ Stored = fetched

\* C25: a quiz result whose outcome is not one of the two accepted values
\* is rejected with an error before the store is read or written: word,
\* ledger and dedup state are unchanged.
C25_InvalidOutcome ==
    [][(QuizHandled /\ request'.result \notin {"remember", "not_remember"})
        => /\ response'.status = 400
           /\ fetched' = NoRow
           /\ words' = words
           /\ daily_study_log' = daily_study_log
           /\ daily_word_reviews' = daily_word_reviews]_vars

\* the outcome "skip" was rejected for a word that has a row
C25_Witness ==
    /\ request.op = "submit_quiz_result"
    /\ request.result = "skip"
    /\ request.word_id \in DOMAIN words
    /\ response.status = 400
    /\ Stored.srs_repetitions = 1

\* C27: a remember result and then a not_remember result on a freshly
\* created word (repetitions 0, interval 0, ease 2.5) end in exactly
\* repetitions 0, interval 0, ease 2.35.
C27_RoundTrip ==
    (/\ budget = MaxQuizRequests - 2
     /\ QuizAnswered("not_remember")
     /\ fetched.srs_repetitions = 1) =>
        /\ Stored.srs_repetitions = 0
        /\ Stored.srs_interval = 0
        /\ Stored.srs_ease_factor = 235

\* the two results were the first two requests on the fresh word
C27_Witness ==
    /\ budget = MaxQuizRequests - 2
    /\ QuizAnswered("not_remember")
    /\ fetched.srs_repetitions = 1
    /\ fetched.srs_interval = 1
    /\ fetched.srs_ease_factor = 250
    /\ fetched.review_count = 1
    /\ Stored.srs_repetitions = 0
    /\ Stored.srs_interval = 0
    /\ Stored.srs_ease_factor = 235

(***************************************************************************)
(* The ledger over the operations of the application.                      *)
(***************************************************************************)
\* C23: the ledger is append-only: over add, edit, move, delete, review,
\* quiz result and debt report no daily_study_log count decreases and no
\* daily_study_log or daily_word_reviews row is removed.
C23_AppendOnly ==
    [][/\ \A d \in DOMAIN daily_study_log :
              /\ d \in DOMAIN daily_study_log'
              /\ daily_study_log'[d] >= daily_study_log[d]
       /\ daily_word_reviews \subseteq daily_word_reviews']_vars

\* a word credited on an earlier day was deleted on a later day: its old
\* guard row is still there, next to the one of the deletion
C23_Witness ==
    /\ request.op = "delete_word"
    /\ response.status = 200
    /\ request.word_id \notin DOMAIN words
    /\ <<request.word_id, AestDate(request.now)>> \in daily_word_reviews
    /\ <<request.word_id, AestDate(request.now) - 1>> \in daily_word_reviews
    /\ LedgerCount(AestDate(request.now)) = 1
    /\ LedgerCount(AestDate(request.now) - 1) = 1

\* the request of this step is complete and valid but for its word id
WellFormed ==
    /\ request'.op = "submit_quiz_result" =>
           /\ request'.result \in {"remember", "not_remember"}
           /\ "stage" \notin DOMAIN request'
    /\ request'.op = "update_word" =>
           request'.data.has_translation \/ request'.data.has_example
    /\ request'.op = "change_word_category" => request'.new_category /= ""

BookkeepingFailed ==
    /\ budget' < budget
    /\ request'.op \in {"add_word", "delete_word"}
    /\ ~request'.bookkeeping_ok
    /\ request'.op = "add_word" =>
           /\ request'.word /= "" /\ request'.category /= ""
           /\ \A id \in DOMAIN words : words[id].word /= request'.word
    /\ request'.op = "delete_word" =>
           /\ request'.word_id \in DOMAIN words
           /\ request'.scope = "" =>
                  \A id \in DOMAIN words \ {request'.word_id} :
                      words[id].word /= words[request'.word_id].word

\* C29: when the category-count refresh or the daily credit fails in
\* add_word or delete_word, the committed creation or deletion stays, the
\* request reports success, the other words keep their fields and the
\* ledger, hence the debt report over it, is as before.
C29_BestEffort ==
    [][BookkeepingFailed =>
        /\ response'.status = 200
        /\ request'.op = "add_word" =>
               /\ response'.word_id \in DOMAIN words' \ DOMAIN words
               /\ words'[response'.word_id].srs_repetitions = 0
               /\ words'[response'.word_id].srs_interval = 0
               /\ words'[response'.word_id].srs_ease_factor = 250
               /\ words'[response'.word_id].next_review_date = NULL
        /\ request'.op = "delete_word" =>
               request'.word_id \notin DOMAIN words'
        /\ \A id \in DOMAIN words \cap DOMAIN words' :
               words'[id] = words[id]
        /\ daily_study_log' = daily_study_log
        /\ daily_word_reviews' = daily_word_reviews
        /\ DebtReport(daily_study_log', AestDate(clock'))
               = DebtReport(daily_study_log, AestDate(clock))]_vars

\* a word was deleted and the bookkeeping failed: the word is gone, the
\* answer is a success and the ledger holds the credit of the creation only
C29_Witness ==
    /\ request.op = "delete_word"
    /\ ~request.bookkeeping_ok
    /\ response.status = 200
    /\ request.word_id \notin DOMAIN words
    /\ LedgerCount(AestDate(request.now) - 1) = 1
    /\ LedgerCount(AestDate(request.now)) = 0
    /\ <<request.word_id, AestDate(request.now)>> \notin daily_word_reviews

(***************************************************************************)
(* Day boundaries.                                                         *)
(***************************************************************************)
\* C24: the date the daily credit goes to, the today of the debt report and
\* the date whose count the daily-count read returns are one and the same
\* UTC+10 date at every instant: the read returns the count of the date a
\* credit made at that instant is booked on.
C24_SameDay ==
    request.op = "get_daily_count" =>
        response.count = LedgerCount(AestDate(request.now))

\* C30: when the guard lookup or insert raises, increment_daily_counter does
\* not fail: it skips the deduplication, increments the day's ledger by 1
\* and answers True, so repeated calls for one word on one day add 1 each.
C30_GuardRaises ==
    [][(/\ budget' < budget
        /\ request'.op = "increment_daily_counter"
        /\ "fault" \in DOMAIN request')
        => /\ response'.status = 200
           /\ response'.applied
           /\ CountOn(daily_study_log', AestDate(clock))
                  = CountOn(daily_study_log, AestDate(clock)) + 1
           /\ daily_word_reviews' = daily_word_reviews]_vars

\* three calls for word 1 on one day, the lookup raising each time: the
\* ledger holds 3 and no guard row
C30_Witness ==
    /\ request.op = "increment_daily_counter"
    /\ "fault" \in DOMAIN request
    /\ request.fault = "select"
    /\ CallsFor(1, AestDate(request.now)) = 3
    /\ CallsFor(2, AestDate(request.now)) = 0
    /\ LedgerCount(AestDate(request.now)) = 3
    /\ daily_word_reviews = {}

(***************************************************************************)
(* The trigger on updates of words.                                        *)
(***************************************************************************)
\* the update of this step changes category, review_count, translation or
\* sample sentence of its word
SignificantUpdate ==
    /\ budget' < budget
    /\ request'.op = "update_words"
    /\ \/ words'[request'.word_id].category
              /= words[request'.word_id].category
       \/ words'[request'.word_id].review_count
              /= words[request'.word_id].review_count
       \/ words'[request'.word_id].translation
              /= words[request'.word_id].translation
       \/ words'[request'.word_id].example_sentence
              /= words[request'.word_id].example_sentence

\* C28: with the trigger installed, the significant updates of one word on
\* one day raise the day's daily_study_log count by exactly 1 in total: the
\* first adds 1, every later one adds 0.
C28_OncePerWordAndDay ==
    [][SignificantUpdate =>
        LET today == request'.now \div 24 IN
        CountOn(daily_study_log', today) =
            CountOn(daily_study_log, today)
                + (IF CallsFor(request'.word_id, today) = 0 THEN 1 ELSE 0)
      ]_vars

\* word 1 had its category, its review_count and its translation changed
\* on one day: the day's count is 1
C28_Witness ==
    /\ request.op = "update_words"
    /\ request.column = "translation"
    /\ CallsFor(1, request.now \div 24) = 3
    /\ CallsFor(2, request.now \div 24) = 0
    /\ words[1].category = "c2"
    /\ words[1].review_count = 1
    /\ words[1].translation = "t2"
    /\ LedgerCount(request.now \div 24) = 1

(***************************************************************************)
(* The application together with callers of the daily counter that pass no *)
(* word id.                                                                *)
(***************************************************************************)
NextLedger == Next \/ CreditDay(NULL)

SpecLedger == Init /\ [][NextLedger]_vars

\* the guard rows of date d
GuardRowsOn(d) == {key \in daily_word_reviews : key[2] = d}

LedgerDates == CreditDates \cup {key[2] : key \in daily_word_reviews}

MaxNameLen == 5

\* the characters drawn: the dot, letters of the extension in both cases
\* and one other letter
NameChars == {".", "x", "m", "l", "X", "L", "t"}

FileNames == UNION {[1..n -> NameChars] : n \in 0..MaxNameLen}

\* Config.ALLOWED_EXTENSIONS
ALLOWED_EXTENSIONS == {<<"x", "m", "l">>}

\* "." in filename
HasDot(filename) == \E i \in 1..Len(filename) : filename[i] = "."

\* slip: split instead of rsplit, the text after the first dot
MutAfterDotFirst(filename) ==
    LET first == CHOOSE i \in 1..Len(filename) :
                     /\ filename[i] = "."
                     /\ \A j \in 1..(i - 1) : filename[j] /= "."
    IN  SubSeq(filename, first + 1, Len(filename))

\* filename.rsplit(".", 1)[1]: the text after the last dot
AfterDot(filename) ==
    LET last == CHOOSE i \in 1..Len(filename) :
                    /\ filename[i] = "."
                    /\ \A j \in (i + 1)..Len(filename) : filename[j] /= "."
    IN  SubSeq(filename, last + 1, Len(filename))

\* str.lower() on the characters drawn
LowerChar(c) ==
    CASE c = "X" -> "x"
      [] c = "L" -> "l"
      [] OTHER -> c

\* slip: the extension is compared as it was typed
MutLowerNone(text) == text

Lower(text) == [i \in 1..Len(text) |-> LowerChar(text[i])]

AllowedFile(filename) ==
    /\ HasDot(filename)
    /\ Lower(AfterDot(filename)) \in ALLOWED_EXTENSIONS

\* one call of allowed_file on a name of the upload
CheckFile(filename) ==
    /\ budget > 0
    /\ budget' = budget - 1
    /\ request' = [op |-> "allowed_file", filename |-> filename]
    /\ fetched' = NoRow
    /\ response' = [status |-> 200, allowed |-> AllowedFile(filename)]
    /\ UNCHANGED <<store, clock, credit_calls, txn, elsewhere>>

FileStep == budget > 0 /\ \E filename \in FileNames : CheckFile(filename)

InitFile ==
    /\ words = << >>
    /\ next_id = 1
    /\ daily_study_log = << >>
    /\ daily_word_reviews = {}
    /\ clock = 0
    /\ budget = 1
    /\ request = NoRequest
    /\ fetched = NoRow
    /\ response = NoResponse
    /\ Quiet

NextFile == FileStep

SpecFile == InitFile /\ [][NextFile]_vars

FileChecked == request.op = "allowed_file"

\* position i holds the last dot of the name and the three characters after
\* it are the end of the name and spell xml in either case
EndsInDotXml(filename, i) ==
    /\ filename[i] = "."
    /\ Len(filename) = i + 3
    /\ filename[i + 1] \in {"x", "X"}
    /\ filename[i + 2] \in {"m", "M"}
    /\ filename[i + 3] \in {"l", "L"}

\* C32: allowed_file(filename) is true exactly when the filename contains a
\* dot and the text after its last dot, lower-cased, is in
\* ALLOWED_EXTENSIONS ({'xml'}); names without an extension and names with
\* any other extension are rejected.
C32_AllowedFile ==
    FileChecked =>
        LET filename == request.filename
        IN  /\ response.allowed =
                   \E i \in 1..Len(filename) : EndsInDotXml(filename, i)
            /\ ~HasDot(filename) => ~response.allowed
            /\ (HasDot(filename) /\ Len(AfterDot(filename)) /= 3)
                   => ~response.allowed

\* a name with two dots and an upper-case extension was accepted
C32_Witness ==
    /\ FileChecked
    /\ request.filename = <<".", ".", "X", "m", "L">>
    /\ response.allowed

\* names without a dot, with an empty extension and with the extension
\* followed by another one were rejected
C32_WitnessRejected ==
    /\ FileChecked
    /\ request.filename \in {<<"x", "m", "l">>, <<".", "x", "m", "l", ".">>,
                             <<"x", "m", "l", ".", "t">>}
    /\ ~response.allowed

(***************************************************************************)
(* Password protection: login_required, /login and /logout.                *)
(***************************************************************************)
\* the attributes of class Config, which app.config.from_object(Config)
\* copies into app.config
ConfigKeys ==
    {"SECRET_KEY", "DEBUG", "DB_HOST", "DB_PORT", "DB_USER", "DB_PASSWORD",
     "DB_NAME", "POE_API_KEY", "POE_MODEL", "POE_TEMPERATURE", "DB_POOL_SIZE",
     "DB_POOL_RECYCLE", "UPLOAD_FOLDER", "MAX_CONTENT_LENGTH",
     "ALLOWED_EXTENSIONS", "XML_BATCH_SIZE"}

\* app.config.get(key) for a key read from the environment under its own
\* name; a key Config does not define gives None, written ""
AppConfigGet(env, key) ==
    IF key \in ConfigKeys /\ key \in DOMAIN env THEN env[key] ELSE ""

\* the passwords a deployment may set and a visitor may type
Passwords == {"pw", "guess"}

ProtectedPages == {"/", "/quiz"}

Methods == {"GET", "POST"}

\* login_required around index() and quiz()
GetPage(page) ==
    /\ budget > 0
    /\ budget' = budget - 1
    /\ request' = [op |-> "get_page", page |-> page, now |-> clock]
    /\ fetched' = NoRow
    /\ UNCHANGED <<store, clock, credit_calls, txn, quiz_txn, environ,
                   session>>
    /\ IF AppConfigGet(environ, "SITE_PASSWORD") = ""
       THEN response' = [status |-> 200, location |-> ""]
       ELSE IF ~session.logged_in
       THEN response' = [status |-> 302, location |-> "/login"]
       ELSE response' = [status |-> 200, location |-> ""]

\* login(): GET shows the form, POST compares request.form["password"]
Login(method, password) ==
    /\ budget > 0
    /\ budget' = budget - 1
    /\ request' = [op |-> "login", method |-> method, password |-> password,
                   now |-> clock]
    /\ fetched' = NoRow
    /\ UNCHANGED <<store, clock, credit_calls, txn, quiz_txn, environ>>
    /\ IF AppConfigGet(environ, "SITE_PASSWORD") = ""
       THEN /\ response' = [status |-> 302, location |-> "/"]
            /\ UNCHANGED session
       ELSE IF session.logged_in
       THEN /\ response' = [status |-> 302, location |-> "/"]
            /\ UNCHANGED session
       ELSE IF method = "POST"
               /\ password = AppConfigGet(environ, "SITE_PASSWORD")
       THEN /\ session' = [session EXCEPT !.logged_in = TRUE]
            /\ response' = [status |-> 302, location |-> "/"]
       ELSE /\ response' = [status |-> 200, location |-> ""]
            /\ UNCHANGED session

\* logout(): session.pop("logged_in", None)
Logout ==
    /\ budget > 0
    /\ budget' = budget - 1
    /\ request' = [op |-> "logout", now |-> clock]
    /\ fetched' = NoRow
    /\ session' = [session EXCEPT !.logged_in = FALSE]
    /\ response' = [status |-> 302, location |-> "/login"]
    /\ UNCHANGED <<store, clock, credit_calls, txn, quiz_txn, environ>>

PageStep == \E page \in ProtectedPages : GetPage(page)

LoginStep == \E method \in Methods, password \in Passwords \cup {""} :
                 Login(method, password)

\* the server started with or without SITE_PASSWORD in its environment
InitLogin ==
    /\ words = << >>
    /\ next_id = 1
    /\ daily_study_log = << >>
    /\ daily_word_reviews = {}
    /\ clock = 0
    /\ budget = MaxCalls
    /\ request = NoRequest
    /\ fetched = NoRow
    /\ response = NoResponse
    /\ credit_calls = << >>
    /\ txn = [p \in Procs |-> IdleTxn]
    /\ quiz_txn = [p \in Procs |-> IdleQuiz]
    /\ environ \in {[SITE_PASSWORD |-> password] :
                       password \in Passwords \cup {""}}
    /\ session = NoSession

NextLogin == PageStep \/ LoginStep \/ Logout \/ TickStep

SpecLogin == InitLogin /\ [][NextLogin]_vars

\* a protected page was requested and this is how it must be answered
PageGated ==
    request.op = "get_page" =>
        IF environ.SITE_PASSWORD = ""
        THEN response.status = 200
        ELSE IF session.logged_in
        THEN response.status = 200
        ELSE response.status = 302 /\ response.location = "/login"

\* the flag changes only by a login POST with the password or by a logout
FlagGuarded ==
    /\ (~session.logged_in /\ session'.logged_in) =>
           /\ request'.op = "login"
           /\ request'.method = "POST"
           /\ request'.password = environ.SITE_PASSWORD
    /\ (session.logged_in /\ ~session'.logged_in) => request'.op = "logout"
    /\ (budget' < budget /\ request'.op = "logout") => ~session'.logged_in

\* C33: when a SITE_PASSWORD is configured, the protected pages / and /quiz
\* are served only in a session whose logged_in flag is set, and that flag
\* is set only by a login POST with the exact configured password and
\* cleared by logout; otherwise the request is redirected to /login.  When
\* no password is configured the pages are served directly.
C33_PagesProtected == []PageGated /\ [][FlagGuarded]_vars

(***************************************************************************)
(* submit_quiz_result statement by statement, for requests that are        *)
(* handled at the same time on connections of their own.  The SELECT is a  *)
(* plain consistent read of the committed row; the UPDATE writes the       *)
(* values computed from that read and holds the lock of the row until the  *)
(* commit, so the UPDATE and conn.commit() take effect as one step.        *)
(***************************************************************************)
\* the request arrives with a valid result
QuizBegin(p, word_id, result) ==
    /\ quiz_txn[p].pc = "idle"
    /\ budget > 0
    /\ ValidResult(result)
    /\ budget' = budget - 1
    /\ quiz_txn' = [quiz_txn EXCEPT ![p] =
                       [pc |-> "select", word_id |-> word_id,
                        result |-> result, read |-> NoRow, status |-> 0]]
    /\ request' = [op |-> "submit_quiz_result", word_id |-> word_id,
                   result |-> result, now |-> clock]
    /\ UNCHANGED <<store, clock, fetched, response, credit_calls, txn,
                   environ, session>>

\* SELECT review_count, srs_interval, srs_repetitions, srs_ease_factor
QuizSelect(p) ==
    /\ quiz_txn[p].pc = "select"
    /\ quiz_txn' = [quiz_txn EXCEPT ![p] =
           IF quiz_txn[p].word_id \in DOMAIN words
           THEN [@ EXCEPT !.pc = "update",
                          !.read = words[quiz_txn[p].word_id]]
           ELSE [@ EXCEPT !.pc = "done", !.status = 404]]
    /\ UNCHANGED <<store, clock, budget, request, fetched, response,
                   credit_calls, txn, environ, session>>

\* the columns of the UPDATE, set on the row as it is stored now
QuizUpdate(current, written) ==
    [current EXCEPT !.review_count = written.review_count,
                    !.updated_at = written.updated_at,
                    !.last_reviewed = written.last_reviewed,
                    !.srs_interval = written.srs_interval,
                    !.srs_repetitions = written.srs_repetitions,
                    !.srs_ease_factor = written.srs_ease_factor,
                    !.next_review_date = written.next_review_date]

\* UPDATE words SET review_count = %s, ... WHERE id = %s and the commit
QuizWrite(p) ==
    /\ quiz_txn[p].pc = "update"
    /\ LET word_id == quiz_txn[p].word_id
           written == QuizRow(quiz_txn[p].read, quiz_txn[p].result, clock)
       IN  /\ words' = [id \in DOMAIN words |->
                           IF id = word_id
                           THEN QuizUpdate(words[id], written)
                           ELSE words[id]]
           /\ fetched' = quiz_txn[p].read
           /\ response' = [status |-> 200, word_id |-> word_id,
                           old_count |-> quiz_txn[p].read.review_count,
                           new_count |-> written.review_count,
                           srs |-> [interval |-> written.srs_interval,
                                    repetitions |-> written.srs_repetitions,
                                    next_review |->
                                        written.next_review_date]]
    /\ quiz_txn' = [quiz_txn EXCEPT ![p].pc = "done", ![p].status = 200]
    /\ UNCHANGED <<next_id, daily_study_log, daily_word_reviews, clock,
                   budget, request, credit_calls, txn, environ, session>>

QuizBeginStep == \E p \in Procs, word_id \in WordIds, result \in Results :
                     QuizBegin(p, word_id, result)

QuizSelectStep == \E p \in Procs : QuizSelect(p)

QuizWriteStep == \E p \in Procs : QuizWrite(p)

\* one word as add_word left it; each caller sends one quiz result, and
\* /review requests arrive in between
InitQuizRace ==
    /\ words = [id \in {1} |-> FreshRow("a", "c1", 0)]
    /\ next_id = 2
    /\ daily_study_log = << >>
    /\ daily_word_reviews = {}
    /\ clock = 0
    /\ budget = MaxRequests
    /\ request = NoRequest
    /\ fetched = NoRow
    /\ response = NoResponse
    /\ Quiet

NextQuizRace ==
    \/ QuizBeginStep
    \/ QuizSelectStep
    \/ QuizWriteStep
    \/ ReviewStep

SpecQuizRace == InitQuizRace /\ [][NextQuizRace]_vars

\* the callers whose quiz result for word 1 was stored
Answered == {p \in Procs : quiz_txn[p].pc = "done" /\ quiz_txn[p].status = 200}

NoQuizInFlight == \A p \in Procs : quiz_txn[p].pc \in {"idle", "done"}

\* the row after the results of callers p and then q, one after the other
InOrder(p, q) ==
    QuizRow(QuizRow(FreshRow("a", "c1", 0), quiz_txn[p].result, 0),
            quiz_txn[q].result, 0)

\* what a quiz result adds to review_count while the count stays above 0
CountDelta(result) == IF result = "remember" THEN -1 ELSE 1

\* C34: two concurrent quiz results for the same word are serializable:
\* under every interleaving the final review_count and SRS fields equal the
\* result of applying the two outcomes one after the other in some order;
\* a quiz result concurrent with a /review increment loses neither change
\* to review_count.
C34_Serializable ==
    NoQuizInFlight =>
        /\ Answered = Procs =>
               \E p, q \in Procs :
                   /\ p /= q
                   /\ Schedule(words[1]) = Schedule(InOrder(p, q))
        /\ words[1].review_count =
               InitialReviewCount + CallsFor(1, AestDate(0))
                   + (IF 1 \in Answered
                      THEN CountDelta(quiz_txn[1].result) ELSE 0)
                   + (IF 2 \in Answered
                      THEN CountDelta(quiz_txn[2].result) ELSE 0)

(***************************************************************************)
(* The schedule of a word that only ever receives quiz results.            *)
(***************************************************************************)
\* C35: in every state reachable from a freshly created word (interval 0,
\* repetitions 0) by quiz results only, interval and repetitions are
\* consistent: repetitions = 0 implies interval = 0, repetitions = 1
\* implies interval = 1, repetitions = 2 implies interval = 6, and
\* repetitions >= 2 implies interval >= 6.
C35_Consistent ==
    LET row == words[1]
    IN  /\ row.srs_repetitions = 0 => row.srs_interval = 0
        /\ row.srs_repetitions = 1 => row.srs_interval = FirstInterval
        /\ row.srs_repetitions = 2 => row.srs_interval = SecondInterval
        /\ row.srs_repetitions >= 2 => row.srs_interval >= SecondInterval

\* after wrong answers had lowered the ease factor to 1.3, three correct
\* answers in a row: repetitions 3, interval int(6 * 1.3) = 7
C35_Witness ==
    /\ QuizAnswered("remember")
    /\ Stored.srs_repetitions = 3
    /\ Stored.srs_ease_factor = MinEase
    /\ Stored.srs_interval = 7

\* a quiz result was stored in this step
QuizStored ==
    /\ budget' < budget
    /\ request'.op = "submit_quiz_result"
    /\ response'.status = 200

\* C36: starting from a freshly created word, along any run of consecutive
\* remember results the interval strictly increases at every step (1, 6,
\* then floor(interval * ease) > interval for every ease in [1.3, 2.5]),
\* and it returns to 0 only on a not_remember result.
C36_Increasing ==
    [][LET old == words[1]
           new == words'[1]
       IN  /\ (QuizStored /\ request'.result = "remember") =>
                  /\ new.srs_interval > old.srs_interval
                  /\ old.srs_repetitions = 0 =>
                         new.srs_interval = FirstInterval
                  /\ old.srs_repetitions = 1 =>
                         new.srs_interval = SecondInterval
                  /\ old.srs_repetitions >= 2 =>
                         new.srs_interval =
                             PyIntProduct(old.srs_interval,
                                          old.srs_ease_factor)
           /\ (new.srs_interval = 0 /\ old.srs_interval /= 0) =>
                  (QuizStored /\ request'.result = "not_remember")
           /\ (QuizStored /\ request'.result = "not_remember") =>
                  new.srs_interval = 0]_vars

\* the third correct answer of a run at the lowest ease factor took the
\* interval from 6 to int(6 * 1.3) = 7
C36_Witness ==
    /\ QuizAnswered("remember")
    /\ fetched.srs_ease_factor = MinEase
    /\ fetched.srs_interval = SecondInterval
    /\ Stored.srs_interval = 7

\* a run at ease 2.5 reached the interval 92 after 1, 6, 15 and 37, and a
\* wrong answer then took it back to 0
C36_WitnessLong ==
    /\ QuizAnswered("not_remember")
    /\ fetched.srs_ease_factor = DefaultEase
    /\ fetched.srs_interval = 92
    /\ Stored.srs_interval = 0

(***************************************************************************)
(* The debt report before and after a credit, over an arbitrary ledger.    *)
(***************************************************************************)
InitCreditDebt ==
    /\ words = << >>
    /\ next_id = 1
    /\ daily_study_log \in Ledgers
    /\ daily_word_reviews = {}
    /\ clock \in {HoursPerDay * d + h : d \in 0..MaxDay, h \in {0, 14}}
    /\ budget = 1
    /\ request = NoRequest
    /\ fetched = NoRow
    /\ response = NoResponse
    /\ Quiet

NextCreditDebt == CreditStep \/ DebtStep

SpecCreditDebt == InitCreditDebt /\ [][NextCreditDebt]_vars

\* the day was credited in this step
DayCredited ==
    /\ budget' < budget
    /\ request'.op = "increment_daily_counter"
    /\ response'.applied

\* C37: crediting today never increases debt: for every ledger and today,
\* totalDebt computed after a creditDay on today is <= totalDebt computed
\* before it, it is unchanged while today's count stays <= 100, and the
\* breakdown is unchanged by any credit to today.
C37_CreditNeverRaises ==
    [][DayCredited =>
        LET today == AestDate(clock)
            before == DebtReport(daily_study_log, today)
            after == DebtReport(daily_study_log', today)
        IN  /\ CountOn(daily_study_log', today)
                   = CountOn(daily_study_log, today) + 1
            /\ after.total_debt <= before.total_debt
            /\ CountOn(daily_study_log', today) <= DailyQuota =>
                   after.total_debt = before.total_debt
            /\ after.breakdown = before.breakdown]_vars

\* the credit took today's count from 100 to 101 with debt left from
\* earlier days: the total went down by 1
C37_Witness ==
    /\ request.op = "increment_daily_counter"
    /\ response.applied
    /\ LedgerCount(Today) = DailyQuota + 1
    /\ PastDebt >= 50
    /\ DebtReport(daily_study_log, Today).total_debt = PastDebt - 1

\* the credit created the first row of a ledger, and one dated before every
\* other row
C37_WitnessEarliest ==
    /\ request.op = "increment_daily_counter"
    /\ response.applied
    /\ LedgerCount(Today) = 1
    /\ \A d \in DOMAIN daily_study_log \ {Today} : d > Today
    /\ Cardinality(DOMAIN daily_study_log) = 2

(***************************************************************************)
(* The debt report on two days in a row, over an arbitrary ledger.         *)
(***************************************************************************)
\* a day passes between two requests
Midnight ==
    /\ clock + HoursPerDay <= HoursPerDay * (MaxDay + 1)
    /\ clock' = clock + HoursPerDay
    /\ UNCHANGED <<store, budget, request, fetched, response, credit_calls,
                   txn, elsewhere>>

InitRollover ==
    /\ words = << >>
    /\ next_id = 1
    /\ daily_study_log \in Ledgers
    /\ daily_word_reviews = {}
    /\ clock \in {HoursPerDay * d : d \in 0..MaxDay}
    /\ budget = 2
    /\ request = NoRequest
    /\ fetched = NoRow
    /\ response = NoResponse
    /\ Quiet

NextRollover == DebtStep \/ Midnight

SpecRollover == InitRollover /\ [][NextRollover]_vars

\* this step answers a debt request one day after the previous one
AskedNextDay ==
    /\ budget' < budget
    /\ request.op = "get_word_debt"
    /\ request'.op = "get_word_debt"
    /\ AestDate(request'.now) = AestDate(request.now) + 1

\* C38: day rollover never decreases debt: for a ledger with earliestDate
\* <= today and no entries dated after today, totalDebt computed with
\* today + 1 as the current day is >= totalDebt computed with today, and
\* equal to it when today's count was >= 100.
C38_RolloverNeverLowers ==
    [][(AskedNextDay
           /\ \A d \in DOMAIN daily_study_log : d <= AestDate(request.now))
        =>
        /\ response'.total_debt >= response.total_debt
        /\ CountOn(daily_study_log, AestDate(request.now)) >= DailyQuota =>
               response'.total_debt = response.total_debt]_vars

\* the day after a report: no row is dated after the day of the report
RolledOver ==
    /\ DebtReported
    /\ budget = 1
    /\ clock = request.now + HoursPerDay
    /\ DOMAIN daily_study_log /= {}
    /\ EarliestDate < Today
    /\ \A d \in DOMAIN daily_study_log : d <= Today

\* the day of the report ended with a surplus of 20, which the report had
\* applied: the total of the next day is the same, and above 0
C38_Witness ==
    /\ RolledOver
    /\ LedgerCount(Today) = 120
    /\ response.total_debt = PastDebt - 20
    /\ response.total_debt > 0
    /\ DebtReport(daily_study_log, Today + 1).total_debt
           = response.total_debt

\* the day of the report ended 50 short: the total of the next day is 50
\* higher
C38_WitnessDeficit ==
    /\ RolledOver
    /\ LedgerCount(Today) = 50
    /\ response.total_debt = PastDebt
    /\ response.total_debt > 0
    /\ DebtReport(daily_study_log, Today + 1).total_debt
           = response.total_debt + 50

(***************************************************************************)
(* The quiz loop of the client: the next word is fetched and answered with *)
(* remember until no word is found.  No time passes and nothing else runs. *)
(***************************************************************************)
\* the most requests a loop over every word makes: one fetch and one answer
\* for each word and the fetch that finds none
DrainRequests == 2 * MaxWords + 1

\* the instant of the loop
DrainNow == 2 * HoursPerDay

\* next_review_date, srs_repetitions and srs_interval of a word never
\* answered, answered wrongly, due after one and two correct answers, and
\* not yet due
DrainSchedules ==
    {<<NULL, 0, 0>>, <<0, 0, 0>>, <<HoursPerDay, 1, FirstInterval>>,
     <<HoursPerDay, 2, SecondInterval>>,
     <<3 * HoursPerDay, 1, FirstInterval>>}

\* review_count of a word out of the quiz, at its last round and above
DrainCounts == 0..InitialReviewCount

DrainRows(word) ==
    {[FreshRow(word, category, 0) EXCEPT
          !.review_count = review_count,
          !.next_review_date = schedule[1],
          !.srs_repetitions = schedule[2],
          !.srs_interval = schedule[3]] :
        category \in Categories, review_count \in DrainCounts,
        schedule \in DrainSchedules}

InitDrain ==
    /\ \E n \in 0..MaxWords :
           /\ words \in [1..n -> UNION {DrainRows(w) : w \in WordTexts}]
           /\ next_id = n + 1
    /\ \A i \in DOMAIN words :
           words[i].word = (IF i = 1 THEN "a" ELSE "b")
    /\ \A i, j \in DOMAIN words :
           (words[i].word = words[j].word
               /\ words[i].category = words[j].category) => i = j
    /\ daily_study_log = << >>
    /\ daily_word_reviews = {}
    /\ clock = DrainNow
    /\ budget = DrainRequests
    /\ request = NoRequest
    /\ fetched = NoRow
    /\ response = NoResponse
    /\ Quiet

\* the loop fetches a word at its start and after every answer
DrainFetchStep ==
    /\ request.op \in {"none", "submit_quiz_result"}
    /\ \E category \in CategoryArgs : GetNextQuizWord(category)

\* the word fetched is answered with remember
DrainAnswerStep ==
    /\ request.op = "get_next_quiz_word"
    /\ response.status = 200
    /\ SubmitQuizResult(response.word_id, "remember")

NextDrain == DrainFetchStep \/ DrainAnswerStep

SpecDrain == InitDrain /\ [][NextDrain]_vars /\ WF_vars(NextDrain)

\* the word was answered in this loop
AnsweredInLoop(id) == words[id].last_reviewed = clock

\* this step fetched a word
WordFetched ==
    /\ budget' < budget
    /\ request'.op = "get_next_quiz_word"
    /\ response'.status = 200

\* the loop has ended: no word was found
Drained == request.op = "get_next_quiz_word" /\ response.status = 404

\* a word is fetched at most once, it was eligible, and one without a date
\* comes only when no dated word of the category is due
FetchedInTurn ==
    WordFetched =>
        LET id == response'.word_id
            due == DueWords(words, request'.category, clock)
        IN  /\ id \in due
            /\ ~AnsweredInLoop(id)
            /\ words[id].next_review_date = NULL =>
                   \A other \in due : words[other].next_review_date = NULL
            /\ \A other \in DOMAIN words :
                   AnsweredInLoop(other) => other \notin due

\* C39: the quiz loop drains: with a finite set of words, time not
\* advancing and no other operation running, repeatedly taking the next due
\* word and answering remember selects each word at most once and reaches
\* 'no words found' after at most as many rounds as there are eligible
\* words; words with an absent next_review_date are reached once every
\* dated due word has been answered.
C39_Drains == [][FetchedInTurn]_vars /\ <>Drained

\* the loop ended after both words were answered, the dated one first
C39_Witness ==
    /\ Drained
    /\ budget = 0
    /\ \A id \in WordIds : id \in DOMAIN words /\ AnsweredInLoop(id)
    /\ \E id \in DOMAIN words : words[id].srs_repetitions = 1
    /\ \E id \in DOMAIN words : words[id].srs_repetitions = 3

(***************************************************************************)
(* Edits of one word over two days.                                        *)
(***************************************************************************)
InitEdits ==
    /\ words = [id \in {1} |-> FreshRow("a", "c1", 0)]
    /\ next_id = 2
    /\ daily_study_log = << >>
    /\ daily_word_reviews = {}
    /\ clock = 0
    /\ budget = MaxCalls
    /\ request = NoRequest
    /\ fetched = NoRow
    /\ response = NoResponse
    /\ Quiet

NextEdits == EditStep \/ TickStep

SpecEdits == InitEdits /\ [][NextEdits]_vars

\* an edit of a stored word was processed in this step
Edited ==
    /\ budget' < budget
    /\ request'.op = "update_word"
    /\ response'.status = 200

\* the edit of this step sends an example sentence other than the stored
\* text
SentenceChanged ==
    /\ request'.data.has_example
    /\ request'.data.example_sentence
           /= words[request'.word_id].example_sentence

\* no change of the example sentence was counted for the word today
NoneCountedToday ==
    words[request'.word_id].last_sample_review_date /= UtcDate(clock)

SentenceChangedStripped ==
    /\ request'.data.has_example
    /\ Strip(request'.data.example_sentence)
           /= Strip(words[request'.word_id].example_sentence)

\* review_count rose at most once on each day so far, and a change counted
\* today shows in it
OncePerDay ==
    \A id \in DOMAIN words :
        /\ words[id].review_count
               <= InitialReviewCount + UtcDate(clock) + 1
        /\ words[id].last_sample_review_date = UtcDate(clock) =>
               words[id].review_count > InitialReviewCount

\* the first edit of a day that changes the stripped sentence adds 1 and
\* marks the day; every other edit leaves count and mark as they are
FirstChangeCounts ==
    Edited =>
        LET id == request'.word_id
        IN  IF SentenceChangedStripped /\ NoneCountedToday
            THEN /\ words'[id].review_count = words[id].review_count + 1
                 /\ words'[id].last_sample_review_date = UtcDate(clock)
            ELSE /\ words'[id].review_count = words[id].review_count
                 /\ words'[id].last_sample_review_date
                        = words[id].last_sample_review_date

=============================================================================
